---------------------------- MODULE Spec2Model ----------------------------
(***************************************************************************)
(* A model of the bulk audio retrieval pipeline of vk_api/audio.py:        *)
(* identity extraction (scrap_ids), the paced batch resolver               *)
(* (scrap_tracks) and the pagination generators of VkAudio; and of the     *)
(* FilesOpener of vk_api/upload.py.                                        *)
(*                                                                         *)
(* Python strings are sequences of one-character strings.  A generator is  *)
(* a coroutine: ctl says whether the consumer or the generator body holds  *)
(* control, pc is the generator's position.  Time is counted in ticks of   *)
(* half a second.                                                          *)
(***************************************************************************)
EXTENDS Integers, Sequences, FiniteSets, TLC

VARIABLES
    audio_data,     \* scrap_ids: the list of records passed in
    scraped,        \* scrap_ids: the outcome of the call
    driver,         \* which generator the consumer iterates
    raw,            \* the raw argument of get_iter / search_iter
    arg_offset,     \* the offset argument of search/popular/news
    album_id,       \* get_iter: TRUE when an album_id was passed
    convert_m3u8_links, \* VkAudio.convert_m3u8_links
    served,         \* the page sizes the upstream serves: <<bad, good>> pairs
    segs,           \* URL normalisation: the parts the link is made of
    link,           \* URL normalisation: the link, then what it has become
    passes,         \* URL normalisation: the links after each application
    html,           \* scrap_albums: the stats texts of the albums of the page
    albums,         \* scrap_albums: the outcome of the call
    workers,        \* concurrent scrap_tracks invocations, one per thread
    opener,         \* a FilesOpener, the file objects around it, its caller
    pc,             \* position of the driver generator
    ctl,            \* "suspended" | "running" | "finished"
    exc,            \* exception that left the generator, or "none"
    response,       \* response / json_response of the driver
    offset,         \* get_iter: numeric page offset
    offset_left,    \* search_iter / get_news_iter: identities counted so far
    desired_index,  \* search_iter: index of the playlist read
    ids,            \* the driver's local ids
    raw_iter,       \* records of the raw for-loop not yet yielded
    st_ids,         \* scrap_tracks: its ids argument
    st_i,           \* scrap_tracks: number of chunks already requested
    last_request,   \* scrap_tracks: its local last_request
    data_audio,     \* scrap_tracks: records of the chunk not yet yielded
    st_ret,         \* where the driver resumes after yield from scrap_tracks
    now,            \* time.time(), in ticks
    jitter,         \* whether the upstream is irregular: latency, idle time,
                    \* answers without data
    http_log,       \* requests issued to the HTTP collaborator, in order
    pages,          \* listing responses received, in order
    pulls,          \* number of next() calls made by the consumer
    out             \* values received by the consumer, in order

vars == <<audio_data, scraped, driver, raw, arg_offset, album_id,
          convert_m3u8_links, served, segs, link, passes, html, albums, workers,
          opener, pc, ctl, exc,
          response, offset, offset_left, desired_index, ids, raw_iter,
          st_ids, st_i, last_request, data_audio, st_ret,
          now, jitter, http_log, pages, pulls, out>>

idsVars    == <<audio_data, scraped>>
argVars    == <<driver, raw, arg_offset, album_id, convert_m3u8_links, served,
                jitter>>
urlVars    == <<segs, link, passes>>
albumVars  == <<html, albums>>
otherVars  == <<urlVars, albumVars, workers, opener>>
driverVars == <<response, offset, offset_left, desired_index, ids, raw_iter>>
stVars     == <<st_ids, st_i, last_request, data_audio, st_ret>>

-----------------------------------------------------------------------------
(* Bounds of the exploration *)

MaxRecords == 2     \* longest list handed to scrap_ids on its own
MaxIds     == 21    \* most identities handed to scrap_tracks on its own
MaxPageLen == 2     \* most records in one listing page
MaxPages   == 3     \* most listing pages the upstream serves in one run
MaxRespLen == 2     \* most records in one reload_audio answer
MaxOffset  == 2     \* largest offset argument
StartTime  == 4     \* time.time() when the run starts
MaxLatency == 1     \* longest time a reload_audio request takes
MaxIdle    == 2     \* longest time the consumer waits before a pull
LongPage   == 5     \* records in a long page of search results
DeepOffset == 7     \* an offset argument that reaches into a second long page
SharedIds  == 11    \* identities of one of two concurrent invocations
MaxClock   == 4     \* how long two concurrent invocations are followed
MaxTextLen == 4     \* longest stats text tried character by character
MaxSegments == 4    \* most parts in a link normalised on its own
MaxPasses  == 2     \* applications of the URL step to one link
MaxPaths   == 3     \* most paths handed to one FilesOpener
MaxOpens   == 2     \* calls of open_files on one FilesOpener

(* Program constants *)

RPS_DELAY_RELOAD_AUDIO == 3     \* 1.5 s
TRACKS_PER_USER_PAGE   == 2000
TRACKS_PER_ALBUM_PAGE  == 2000
ALBUMS_PER_USER_PAGE   == 100
CHUNK                  == 10
FULL_UPDATES_PAGE      == 11
HASH_A                 == 2     \* audio_hashes[2]
HASH_B                 == 5     \* audio_hashes[5]

-----------------------------------------------------------------------------
(* Python values and strings *)

PyInt(n) == [k |-> "int", n |-> n, s |-> <<>>]
PyStr(s) == [k |-> "str", n |-> 0, s |-> s]

DigitChar == <<"0", "1", "2", "3", "4", "5", "6", "7", "8", "9">>

RECURSIVE Digits(_)
Digits(n) ==
    IF n < 10 THEN <<DigitChar[n + 1]>>
    ELSE Digits(n \div 10) \o <<DigitChar[(n % 10) + 1]>>

\* str(x)
Str(x) ==
    IF x.k = "str" THEN x.s
    ELSE IF x.n < 0 THEN <<"-">> \o Digits(-x.n) ELSE Digits(x.n)

\* s.split(sep)
RECURSIVE Split(_, _)
Split(s, sep) ==
    IF \A i \in 1..Len(s) : s[i] # sep THEN <<s>>
    ELSE LET i == CHOOSE j \in 1..Len(s) :
                      s[j] = sep /\ \A m \in 1..(j - 1) : s[m] # sep
         IN <<SubSeq(s, 1, i - 1)>> \o Split(SubSeq(s, i + 1, Len(s)), sep)

\* sep.join(parts)
RECURSIVE Join(_, _)
Join(parts, sep) ==
    IF parts = <<>> THEN <<>>
    ELSE IF Len(parts) = 1 THEN parts[1]
    ELSE parts[1] \o <<sep>> \o Join(Tail(parts), sep)

\* all(t) for a tuple of strings
AllTruthy(t) == \A i \in 1..Len(t) : t[i] # <<>>

Min(a, b) == IF a < b THEN a ELSE b

\* s[k:]
RECURSIVE Drop(_, _)
Drop(s, k) == IF k <= 0 \/ s = <<>> THEN s ELSE Drop(Tail(s), k - 1)

\* sub in s
HasSub(sub, s) ==
    \E i \in 1..(Len(s) - Len(sub) + 1) : SubSeq(s, i, i + Len(sub) - 1) = sub

\* s[i:].startswith(lit), i counted from 1
At(s, i, lit) ==
    i + Len(lit) - 1 <= Len(s) /\ SubSeq(s, i, i + Len(lit) - 1) = lit

RECURSIVE Concat(_)
Concat(parts) == IF parts = <<>> THEN <<>> ELSE Head(parts) \o Concat(Tail(parts))

-----------------------------------------------------------------------------
(* The URL of a track: decode_audio_url and RE_M3U8_TO_MP3 *)

MARKER == <<"a", "u", "d", "i", "o", "_", "a", "p", "i", "_",
            "u", "n", "a", "v", "a", "i", "l", "a", "b", "l", "e">>
M3U8   == <<"m", "3", "u", "8">>
AUDIOS == <<"/", "a", "u", "d", "i", "o", "s">>
INDEX  == <<"/", "i", "n", "d", "e", "x">>
MP3    == <<".", "m", "p", "3">>

\* [0-9a-f]
IsHexChar(c) ==
    c \in {"0", "1", "2", "3", "4", "5", "6", "7", "8", "9",
           "a", "b", "c", "d", "e", "f"}

\* the length of the run of [0-9a-f] that starts at position i
RECURSIVE HexRun(_, _)
HexRun(s, i) ==
    IF i <= Len(s) /\ IsHexChar(s[i]) THEN 1 + HexRun(s, i + 1) ELSE 0

NoMatch == [ok |-> FALSE, g1 |-> <<>>, g2 |-> <<>>, end |-> 0]

\* /([0-9a-f]+)/index.m3u8 matched at position j.  The run of hex digits is
\* taken whole: a shorter one would have to be followed by "/", and is
\* followed by a hex digit.  The "." of the pattern matches any character
\* but a newline.
TailMatch(s, j) ==
    LET n == IF At(s, j, <<"/">>) THEN HexRun(s, j + 1) ELSE 0
        k == j + 1 + n
    IN IF /\ n >= 1
          /\ At(s, k, INDEX)
          /\ k + Len(INDEX) <= Len(s) /\ s[k + Len(INDEX)] # "\n"
          /\ At(s, k + Len(INDEX) + 1, M3U8)
       THEN [ok |-> TRUE, g1 |-> <<>>, g2 |-> SubSeq(s, j + 1, k - 1),
             end |-> k + Len(INDEX) + 1 + Len(M3U8)]
       ELSE NoMatch

\* RE_M3U8_TO_MP3 matched at position i: the groups and the position after
\* the match.  (/audios)? is tried with the segment first, then without it.
MatchAt(s, i) ==
    LET n   == IF At(s, i, <<"/">>) THEN HexRun(s, i + 1) ELSE 0
        j   == i + 1 + n
        withSeg == IF At(s, j, AUDIOS) THEN TailMatch(s, j + Len(AUDIOS))
                   ELSE NoMatch
        without == TailMatch(s, j)
    IN IF n < 1 THEN NoMatch
       ELSE IF withSeg.ok THEN [withSeg EXCEPT !.g1 = AUDIOS]
       ELSE without

\* Replacement without group 1: r'/\2.mp3'
Replacement_NoGroup1(g1, g2) == <<"/">> \o g2 \o MP3

\* Replacement that keeps the name of the playlist: r'\1/\2/index.m3u8'
Replacement_KeepsIndex(g1, g2) == g1 \o <<"/">> \o g2 \o INDEX \o <<".">> \o M3U8

\* the template r'\1/\2.mp3'; a group that did not take part is ''
Replacement(g1, g2) == g1 \o <<"/">> \o g2 \o MP3

\* RE_M3U8_TO_MP3.sub(r'\1/\2.mp3', s): every match, leftmost first, the
\* matches not overlapping
RECURSIVE SubFrom(_, _)
SubFrom(s, i) ==
    IF i > Len(s) THEN <<>>
    ELSE LET m == MatchAt(s, i)
         IN IF m.ok THEN Replacement(m.g1, m.g2) \o SubFrom(s, m.end)
            ELSE <<s[i]>> \o SubFrom(s, i + 1)

RE_M3U8_TO_MP3_sub(s) == SubFrom(s, 1)

\* decode_audio_url(link, user_id): the URL an opaque link stands for, here
\* the text that follows the "#" of the link
RECURSIVE decode_audio_url(_)
decode_audio_url(l) ==
    IF l = <<>> THEN <<>>
    ELSE IF Head(l) = "#" THEN Tail(l)
    ELSE decode_audio_url(Tail(l))

\* Link with the first test reading 'm3u8' in link: the flag ignored
Link_AlwaysConverts(l, convert) ==
    LET decoded == IF HasSub(MARKER, l) THEN decode_audio_url(l) ELSE l
    IN IF HasSub(M3U8, decoded) THEN RE_M3U8_TO_MP3_sub(decoded) ELSE decoded

\* link, as scrap_tracks leaves it for the 'url' of the track
Link(l, convert) ==
    LET decoded == IF HasSub(MARKER, l) THEN decode_audio_url(l) ELSE l
    IN IF convert /\ HasSub(M3U8, decoded)
       THEN RE_M3U8_TO_MP3_sub(decoded) ELSE decoded

(* The parts the links of the exploration are made of *)

HOST  == <<"h">>
HEX1  == <<"/", "a", "b", "c", "1", "2", "3">>
HEX2  == <<"/", "d", "e", "f", "4", "5", "6">>
PLAYLIST == INDEX \o <<".">> \o M3U8
QUERY == <<"?", "e">>
OPAQUE == MARKER \o <<"#">>

UrlParts == {HEX1, HEX2, AUDIOS, PLAYLIST, QUERY, OPAQUE}

\* the URL field of the record the upstream returns for identity number n
UrlSample(n) ==
    CASE n % 5 = 1 -> HOST \o HEX1 \o AUDIOS \o HEX2 \o PLAYLIST \o QUERY
      [] n % 5 = 2 -> HOST \o HEX1 \o MP3
      [] n % 5 = 3 -> HOST \o PLAYLIST
      [] n % 5 = 4 -> OPAQUE \o HOST \o HEX1 \o HEX2 \o PLAYLIST
      [] OTHER     -> HOST \o HEX1 \o HEX2 \o PLAYLIST

-----------------------------------------------------------------------------
(* scrap_ids *)

\* FullId reading audio_hashes[4] where the code reads audio_hashes[5]
FullId_WrongToken(track) ==
    LET audio_hashes == Split(track.hashes, "/")
    IN IF Len(audio_hashes) < HASH_B + 1
       THEN [err |-> "IndexError", t |-> <<>>]
       ELSE [err |-> "none",
             t   |-> <<Str(track.owner_id), Str(track.id),
                       audio_hashes[HASH_A + 1], audio_hashes[HASH_B]>>]

\* the tuple built for one record; err when audio_hashes has no such index
FullId(track) ==
    LET audio_hashes == Split(track.hashes, "/")
    IN IF Len(audio_hashes) < HASH_B + 1
       THEN [err |-> "IndexError", t |-> <<>>]
       ELSE [err |-> "none",
             t   |-> <<Str(track.owner_id), Str(track.id),
                       audio_hashes[HASH_A + 1], audio_hashes[HASH_B + 1]>>]

RECURSIVE ScrapLoop(_, _)
ScrapLoop(rest, acc) ==
    IF rest = <<>> THEN [err |-> "none", ids |-> acc]
    ELSE LET full_id == FullId(Head(rest))
         IN IF full_id.err # "none" THEN [err |-> full_id.err, ids |-> <<>>]
            ELSE IF AllTruthy(full_id.t)
                 THEN ScrapLoop(Tail(rest), Append(acc, full_id.t))
                 ELSE ScrapLoop(Tail(rest), acc)

scrap_ids(data) == ScrapLoop(data, <<>>)

-----------------------------------------------------------------------------
(* Records the upstream can send *)

H_OK    == <<"a", "/", "b", "/", "c", "/", "d", "/", "e", "/", "f">>
H_NO2   == <<"a", "/", "b", "/", "/", "d", "/", "e", "/", "f">>
H_NO5   == <<"a", "/", "b", "/", "c", "/", "d", "/", "e", "/">>
H_SHORT == <<"a", "/", "b", "/", "c">>
H_EMPTY == <<>>

HashSamples  == {H_OK, H_NO2, H_NO5, H_SHORT, H_EMPTY}
OwnerSamples == {PyInt(0), PyInt(-7), PyStr(<<>>)}
IdSamples    == {PyInt(5), PyStr(<<>>)}

AudioRecords ==
    [id : IdSamples, owner_id : OwnerSamples, hashes : HashSamples,
     context : {"search_global_audios"}]

SeqsUpTo(S, n) == UNION {[1..k -> S] : k \in 0..n}

-----------------------------------------------------------------------------
(* The values every variable has before the operation under study starts *)

None == [shape |-> "None", ok |-> FALSE, hasMore |-> FALSE, layout |-> 0,
         playlists |-> <<>>, list |-> <<>>, sectionId |-> 0, nextFrom |-> 0]

IdleIds == audio_data = <<>> /\ scraped = [done |-> FALSE, err |-> "none", ids |-> <<>>]

IdleDriver ==
    /\ response = None /\ offset = 0 /\ offset_left = 0 /\ desired_index = 0
    /\ ids = <<>> /\ raw_iter = <<>>

IdleTracks ==
    /\ st_ids = <<>> /\ st_i = 0 /\ last_request = 0 /\ data_audio = <<>>
    /\ st_ret = "done"

IdleEnv ==
    now = StartTime /\ http_log = <<>> /\ pages = <<>> /\ pulls = 0 /\ out = <<>>

IdleUrl == segs = <<>> /\ link = <<>> /\ passes = <<>>

IdleAlbums == html = <<>> /\ albums = [done |-> FALSE, err |-> "none", list |-> <<>>]

IdleWorkers == workers = <<>>

IdleOpener ==
    opener = [paths |-> <<>>, opened_files |-> <<>>, handles |-> <<>>,
              files |-> <<>>, calls |-> 0, at |-> "none", err |-> "none"]

\* the pages the upstream serves when nothing else is said: at most one
\* record without a valid identity, MaxPageLen records at most
ShortPages == {x \in (0..1) \X (0..MaxPageLen) : x[1] + x[2] <= MaxPageLen}

-----------------------------------------------------------------------------
(* scrap_ids called on its own *)

InitIds ==
    /\ audio_data \in SeqsUpTo(AudioRecords, MaxRecords)
    /\ scraped = [done |-> FALSE, err |-> "none", ids |-> <<>>]
    /\ driver = "scrap_ids" /\ raw = FALSE /\ arg_offset = 0 /\ album_id = FALSE
    /\ convert_m3u8_links = TRUE /\ served = ShortPages
    /\ jitter = FALSE /\ IdleOpener
    /\ pc = "call" /\ ctl = "running" /\ exc = "none"
    /\ IdleDriver /\ IdleTracks /\ IdleEnv
    /\ IdleUrl /\ IdleAlbums /\ IdleWorkers

CallScrapIds ==
    /\ driver = "scrap_ids" /\ pc = "call"
    /\ LET r == scrap_ids(audio_data)
       IN /\ scraped' = [done |-> TRUE, err |-> r.err, ids |-> r.ids]
          /\ exc' = r.err
          /\ pc' = IF r.err = "none" THEN "done" ELSE "raised"
    /\ ctl' = "finished"
    /\ UNCHANGED <<audio_data, otherVars, argVars, pulls, driverVars, stVars, now, http_log, pages, out>>

NextIds == CallScrapIds

SpecIds == InitIds /\ [][NextIds]_vars

-----------------------------------------------------------------------------
(* The URL step of scrap_tracks applied to a link, and again to its result *)

InitUrl ==
    /\ IdleIds
    /\ driver = "link" /\ raw = FALSE /\ arg_offset = 0 /\ album_id = FALSE
    /\ convert_m3u8_links \in BOOLEAN /\ served = ShortPages
    /\ jitter = FALSE /\ IdleOpener
    /\ pc = "call" /\ ctl = "running" /\ exc = "none"
    /\ IdleDriver /\ IdleTracks /\ IdleEnv
    /\ segs \in SeqsUpTo(UrlParts, MaxSegments)
    /\ link = Concat(segs)
    /\ passes = <<>>
    /\ IdleAlbums /\ IdleWorkers

Normalize ==
    /\ driver = "link" /\ Len(passes) < MaxPasses
    /\ passes' = Append(passes,
                    Link(IF passes = <<>> THEN link ELSE passes[Len(passes)],
                         convert_m3u8_links))
    /\ UNCHANGED <<idsVars, argVars, segs, link, albumVars, workers, opener, pc, ctl, exc,
                   driverVars, stVars, now, http_log, pages, pulls, out>>

NextUrl == Normalize

SpecUrl == InitUrl /\ [][NextUrl]_vars

-----------------------------------------------------------------------------
(* scrap_albums: the plays of an album, read from its stats text *)

PyNone == [k |-> "None", n |-> 0, s |-> <<>>]

IsDigit(c) == \E n \in 0..9 : DigitChar[n + 1] = c

\* the position of the last sep of s, 0 when there is none
LastIndex(s, sep) ==
    IF \A i \in 1..Len(s) : s[i] # sep THEN 0
    ELSE CHOOSE i \in 1..Len(s) : s[i] = sep /\ \A j \in (i + 1)..Len(s) : s[j] # sep

\* the position of the first sep of s, 0 when there is none
FirstIndex(s, sep) ==
    IF \A i \in 1..Len(s) : s[i] # sep THEN 0
    ELSE CHOOSE i \in 1..Len(s) : s[i] = sep /\ \A j \in 1..(i - 1) : s[j] # sep

\* RSplitHead cutting at the first space: s.split(' ', 1)[0]
RSplitHead_FirstSpace(s) ==
    IF FirstIndex(s, " ") = 0 THEN s ELSE SubSeq(s, 1, FirstIndex(s, " ") - 1)

\* s.rsplit(' ', 1)[0]
RSplitHead(s) ==
    IF LastIndex(s, " ") = 0 THEN s ELSE SubSeq(s, 1, LastIndex(s, " ") - 1)

\* s.replace(old, '') for a one-character old
Removed(s, old) == SelectSeq(s, LAMBDA c : c # old)

\* int() reading the digits of s from the left: prev is what stands before
\* the rest ("" at the start, "d" after a digit, "_" after an underscore),
\* acc the number read so far; an underscore has a digit on both sides
RECURSIVE IntScan(_, _, _)
IntScan(rest, prev, acc) ==
    IF rest = <<>>
    THEN IF prev = "d" THEN [err |-> "none", n |-> acc]
         ELSE [err |-> "ValueError", n |-> 0]
    ELSE IF IsDigit(Head(rest))
    THEN IntScan(Tail(rest), "d",
                 10 * acc + (CHOOSE n \in 0..9 : DigitChar[n + 1] = Head(rest)))
    ELSE IF Head(rest) = "_" /\ prev = "d" THEN IntScan(Tail(rest), "_", acc)
    ELSE [err |-> "ValueError", n |-> 0]

\* int(s), base 10, for a text without blanks around it
int(s) ==
    IF s # <<>> /\ Head(s) \in {"-", "+"}
    THEN LET r == IntScan(Tail(s), "", 0)
         IN IF Head(s) = "-" THEN [r EXCEPT !.n = -r.n] ELSE r
    ELSE IntScan(s, "", 0)

\* try: plays = int(stats_text.rsplit(' ', 1)[0].replace(' ', ''))
\* except ValueError: plays = None
Plays(stats_text) ==
    LET r == int(Removed(RSplitHead(stats_text), " "))
    IN IF r.err = "none" THEN PyInt(r.n) ELSE PyNone

\* the albums of a page (of an album only what the stats text decides)
scrap_albums(page) == [k \in 1..Len(page) |-> [plays |-> Plays(page[k])]]

(* scrap_albums called on its own *)

TextChars == {"0", "1", " ", "x", "-", "_"}

\* "1 011 something" and "no number here"
ExampleTexts ==
    {<<"1", " ", "0", "1", "1", " ", "s", "o", "m", "e", "t", "h", "i", "n", "g">>,
     <<"n", "o", " ", "n", "u", "m", "b", "e", "r", " ", "h", "e", "r", "e">>}

InitAlbums ==
    /\ IdleIds
    /\ driver = "scrap_albums" /\ raw = FALSE /\ arg_offset = 0 /\ album_id = FALSE
    /\ convert_m3u8_links = TRUE /\ served = ShortPages
    /\ jitter = FALSE /\ IdleOpener
    /\ pc = "call" /\ ctl = "running" /\ exc = "none"
    /\ IdleDriver /\ IdleTracks /\ IdleEnv
    /\ IdleUrl /\ IdleWorkers
    /\ html \in {<<t>> : t \in SeqsUpTo(TextChars, MaxTextLen)}
                \cup SeqsUpTo(ExampleTexts, 2)
    /\ albums = [done |-> FALSE, err |-> "none", list |-> <<>>]

CallScrapAlbums ==
    /\ driver = "scrap_albums" /\ pc = "call"
    /\ albums' = [done |-> TRUE, err |-> "none", list |-> scrap_albums(html)]
    /\ pc' = "done" /\ ctl' = "finished"
    /\ UNCHANGED <<idsVars, urlVars, html, workers, opener, argVars, exc, driverVars, stVars,
                   now, http_log, pages, pulls, out>>

NextAlbums == CallScrapAlbums

SpecAlbums == InitAlbums /\ [][NextAlbums]_vars

-----------------------------------------------------------------------------
(* The generator protocol *)

\* next(gen): the consumer hands control to the generator body
Pull ==
    /\ ctl = "suspended"
    /\ ctl' = "running"
    /\ pulls' = pulls + 1
    /\ \E idle \in (IF jitter THEN 0..MaxIdle ELSE {0}) : now' = now + idle
    /\ UNCHANGED <<idsVars, otherVars, argVars, pc, exc, driverVars, stVars, http_log, pages, out>>

\* the generator body runs off its end (or returns): StopIteration
Returns == pc' = "done" /\ ctl' = "finished" /\ exc' = exc

\* an exception leaves the generator body
Raises(e) == pc' = "raised" /\ ctl' = "finished" /\ exc' = e

\* the body goes on at label l within the same pull
Goes(l) == pc' = l /\ ctl' = ctl /\ exc' = exc

\* a yield that hands the value over without suspending the body
Yields_NoSuspend(v) == out' = Append(out, v) /\ ctl' = ctl

\* yield v
Yields(v) == out' = Append(out, v) /\ ctl' = "suspended"

\* one request handed to the HTTP collaborator; answer is filled in for a
\* reload_audio request: whose records came back, in the order of the answer
Request(act, t) ==
    [act |-> act, t |-> t, seen |-> Len(pages), offset |-> 0, ids |-> <<>>,
     section_id |-> 0, start_from |-> 0, failed |-> FALSE, answer |-> <<>>]

\* whose record it is
Whose(audio) == <<audio.owner_id, audio.id>>

-----------------------------------------------------------------------------
(* scrap_tracks *)

\* range(start, stop, step)
RECURSIVE Range(_, _, _)
Range(start, stop, step) ==
    IF start >= stop THEN <<>> ELSE <<start>> \o Range(start + step, stop, step)

\* s[a:b]
Slice(s, a, b) == SubSeq(s, a + 1, Min(b, Len(s)))

\* IdsGroups stopping at the last full chunk: range(0, len(ids) - 9, 10)
IdsGroups_NoTail(x) ==
    LET starts == Range(0, Len(x) - (CHUNK - 1), CHUNK)
    IN [k \in 1..Len(starts) |-> Slice(x, starts[k], starts[k] + CHUNK)]

\* [ids[i:i + 10] for i in range(0, len(ids), 10)]
IdsGroups(x) ==
    LET starts == Range(0, Len(x), CHUNK)
    IN [k \in 1..Len(starts) |-> Slice(x, starts[k], starts[k] + CHUNK)]

\* ','.join(['_'.join(i) for i in ids_group])
ReloadPayload(ids_group) ==
    Join([k \in 1..Len(ids_group) |-> Join(ids_group[k], "_")], ",")

\* delay = RPS_DELAY_RELOAD_AUDIO - (time.time() - last_request)
Delay(t, last) == RPS_DELAY_RELOAD_AUDIO - (t - last)

\* IssueTime without the time.sleep(delay)
IssueTime_NoSleep(t, last) == t

\* the moment the post is made: after time.sleep(delay) when delay > 0
IssueTime(t, last) == IF Delay(t, last) > 0 THEN t + Delay(t, last) ELSE t

\* the sum of the digits of a string of digits
RECURSIVE DigitSum(_)
DigitSum(s) ==
    IF s = <<>> THEN 0
    ELSE (CHOOSE n \in 0..9 : DigitChar[n + 1] = Head(s)) + DigitSum(Tail(s))

\* the URL field of the record the upstream returns for an identity: the
\* identities of a run between them cover the forms of UrlSample
UrlOf(id) == UrlSample(DigitSum(id))

\* the record the upstream returns for one identity
Resolved(i) == [id |-> i[2], owner_id |-> i[1], url |-> UrlOf(i[2])]

\* what the upstream may answer to reload_audio: the records of the first
\* identities of the chunk, MaxRespLen at most, or, from an irregular
\* upstream, no data envelope
ReloadResults(ids_group) ==
    LET n == Min(Len(ids_group), MaxRespLen)
    IN (IF jitter THEN {[data |-> <<>>]} ELSE {})
       \cup {[data |-> <<[k \in 1..n |-> Resolved(ids_group[k])]>>]}

\* the dict yielded for one record of the answer
Track(audio) ==
    [kind |-> "track", id |-> audio.id, owner_id |-> audio.owner_id,
     url |-> Link(audio.url, convert_m3u8_links)]

\* CallScrapTracks with last_request kept from the call before
CallScrapTracks_KeepsStamp(x, ret) ==
    /\ pc' = "st" /\ ctl' = ctl /\ exc' = exc
    /\ st_ids' = x /\ st_i' = 0 /\ last_request' = last_request /\ data_audio' = <<>>
    /\ st_ret' = ret

\* yield from scrap_tracks(x, ...), the driver resuming at ret
CallScrapTracks(x, ret) ==
    /\ pc' = "st" /\ ctl' = ctl /\ exc' = exc
    /\ st_ids' = x /\ st_i' = 0 /\ last_request' = 0 /\ data_audio' = <<>>
    /\ st_ret' = ret

\* one turn of the for loop up to its first yield: pace, post, read the answer
ST_Chunk ==
    /\ pc = "st" /\ ctl = "running"
    /\ data_audio = <<>>
    /\ st_i < Len(IdsGroups(st_ids))
    /\ LET ids_group == IdsGroups(st_ids)[st_i + 1]
           issued    == IssueTime(now, last_request)
       IN \E lat \in (IF jitter THEN 0..MaxLatency ELSE {0}) :
          \E result \in ReloadResults(ids_group) :
             LET got == IF result.data # <<>> THEN result.data[1] ELSE <<>>
             IN /\ http_log' = Append(http_log,
                       [Request("reload_audio", issued)
                           EXCEPT !.ids = ReloadPayload(ids_group),
                                  !.answer = [k \in 1..Len(got) |-> Whose(got[k])]])
                /\ now' = issued + lat
                /\ last_request' = issued + lat
                /\ data_audio' = got
    /\ st_i' = st_i + 1
    /\ UNCHANGED <<idsVars, otherVars, argVars, pulls, pc, ctl, exc, driverVars, st_ids, st_ret,
                   pages, out>>

\* the same turn when the answer has no 'data' key: result['data'] raises
\* after last_request has been set
ST_KeyError ==
    /\ pc = "st" /\ ctl = "running"
    /\ data_audio = <<>>
    /\ st_i < Len(IdsGroups(st_ids))
    /\ LET ids_group == IdsGroups(st_ids)[st_i + 1]
           issued    == IssueTime(now, last_request)
       IN \E lat \in (IF jitter THEN 0..MaxLatency ELSE {0}) :
             /\ http_log' = Append(http_log,
                    [Request("reload_audio", issued)
                        EXCEPT !.ids = ReloadPayload(ids_group)])
             /\ now' = issued + lat
             /\ last_request' = issued + lat
    /\ st_i' = st_i + 1
    /\ Raises("KeyError: 'data'")
    /\ UNCHANGED <<idsVars, otherVars, argVars, pulls, driverVars, st_ids, data_audio,
                   st_ret, pages, out>>

\* ST_Yield taking the records of the answer from its end
ST_Yield_Last ==
    /\ pc = "st" /\ ctl = "running"
    /\ data_audio # <<>>
    /\ Yields(Track(data_audio[Len(data_audio)]))
    /\ data_audio' = SubSeq(data_audio, 1, Len(data_audio) - 1)
    /\ UNCHANGED <<idsVars, otherVars, argVars, pulls, pc, exc, driverVars, st_ids, st_i,
                   last_request, st_ret, now, http_log, pages>>

\* for audio in data_audio: ... yield {...}
ST_Yield ==
    /\ pc = "st" /\ ctl = "running"
    /\ data_audio # <<>>
    /\ Yields(Track(Head(data_audio)))
    /\ data_audio' = Tail(data_audio)
    /\ UNCHANGED <<idsVars, otherVars, argVars, pulls, pc, exc, driverVars, st_ids, st_i,
                   last_request, st_ret, now, http_log, pages>>

\* the for loop is exhausted: scrap_tracks returns to whoever iterates it
ST_Return ==
    /\ pc = "st" /\ ctl = "running"
    /\ data_audio = <<>>
    /\ st_i = Len(IdsGroups(st_ids))
    /\ IF st_ret = "done" THEN Returns ELSE Goes(st_ret)
    /\ UNCHANGED <<idsVars, otherVars, argVars, pulls, driverVars, stVars, now, http_log, pages, out>>

-----------------------------------------------------------------------------
(* What the upstream can answer to a listing request.  Page p carries       *)
(* records numbered 100p+1, 100p+2, ..., so that every record served in a   *)
(* run is distinct; listing pages carry well-formed hashes (six tokens), so *)
(* scrap_ids does not raise on them.                                        *)

RecordAt(p, j, good) ==
    [id |-> PyInt(100 * p + j), owner_id |-> PyInt(-7),
     hashes |-> IF good THEN H_OK ELSE H_NO2,
     context |-> "search_global_audios"]

\* bad records without a valid identity, then good records with one
PageList(p, bad, good) == [j \in 1..(bad + good) |-> RecordAt(p, j, j > bad)]

PageLists(p) == {PageList(p, bg[1], bg[2]) : bg \in served}

Resp(shape, p) ==
    [shape |-> shape, ok |-> TRUE, hasMore |-> FALSE, layout |-> 0,
     playlists |-> <<>>, list |-> <<>>,
     sectionId |-> 10 * p + 1, nextFrom |-> 10 * p + 2]

\* act=load_section: data[0] falsy, or {list, hasMore}
LoadSectionResps(p) ==
    {[Resp("load_section", p) EXCEPT !.ok = FALSE]} \cup
    {[Resp("load_section", p) EXCEPT !.list = l, !.hasMore = h] :
        l \in PageLists(p), h \in BOOLEAN}

\* payload[1][1] of a search answer: the playlist of results, alone or after
\* a playlist of another type
SearchPlaylists(p, layout, l) ==
    IF layout = 1 THEN <<[type |-> "search", list |-> l]>>
    ELSE <<[type |-> "recoms", list |-> <<RecordAt(p, 50, TRUE)>>],
           [type |-> "search", list |-> l]>>

SearchResps(shape, p, layout) ==
    {[Resp(shape, p) EXCEPT !.layout = layout,
                            !.playlists = SearchPlaylists(p, layout, l)] :
        l \in PageLists(p)}

\* payload[1][1] of an updates answer: n sub-playlists of two records each,
\* the first one possibly empty
UpdatesPlaylists(p, n, first_empty) ==
    [k \in 1..n |->
        [type |-> "updates",
         list |-> IF first_empty /\ k = 1 THEN <<>>
                  ELSE <<RecordAt(p, k, TRUE), RecordAt(p, 50 + k, TRUE)>>]]

UpdatesResps(shape, p) ==
    {[Resp(shape, p) EXCEPT !.playlists = UpdatesPlaylists(p, n, e)] :
        n \in {0, 1, FULL_UPDATES_PAGE - 1, FULL_UPDATES_PAGE, FULL_UPDATES_PAGE + 1},
        e \in BOOLEAN}

\* an HTML page with the "new AudioPage(" literal, or without it
AudioPageResps(p) ==
    {[Resp("audiopage", p) EXCEPT !.ok = FALSE]} \cup
    {[Resp("audiopage", p) EXCEPT !.list = l] : l \in PageLists(p)}

\* payload[1][1]['playlist'] of a load_catalog_section answer
CatalogListResps(p) == {[Resp("catalog", p) EXCEPT !.list = l] : l \in PageLists(p)}

\* the top-level keys of the decoded answer: the AudioPage literal is read
\* under 'sectionData', the answers of al_audio.php under 'payload' (where
\* search_iter also finds their sectionId and nextFrom)
Keys(r) ==
    CASE r.shape = "load_section" -> {"data"}
      [] r.shape = "audiopage"    -> {"sectionData"}
      [] r.shape = "section"      -> {"payload"}
      [] r.shape = "catalog"      -> {"payload"}
      [] OTHER                    -> {}

\* a listing request and its answer
Listing(req, r) ==
    /\ http_log' = Append(http_log, req)
    /\ pages' = Append(pages, r)
    /\ response' = r

\* CatalogRequest keeping the cursor of the first answer of the run
CatalogRequest_First(r) ==
    [Request("load_catalog_section", now)
        EXCEPT !.section_id = pages[1].sectionId, !.start_from = pages[1].nextFrom]

\* the load_catalog_section post made after answer r
CatalogRequest(r) ==
    [Request("load_catalog_section", now)
        EXCEPT !.section_id = r.sectionId, !.start_from = r.nextFrom]

\* the record yielded in raw mode (performer and title are not modelled)
RawRecord(i) == [kind |-> "raw", id |-> i.id, owner_id |-> i.owner_id]

-----------------------------------------------------------------------------
(* VkAudio.get_iter *)

OffsetDiff == IF album_id THEN TRACKS_PER_ALBUM_PAGE ELSE TRACKS_PER_USER_PAGE

\* HasMore taking every answer to announce a further page
HasMore_Always(r) == TRUE

\* response['data'][0]['hasMore']
HasMore(r) == r.hasMore

\* top of the while loop: the last answer said hasMore is false
GI_Break ==
    /\ driver = "get_iter" /\ pc = "gi_loop" /\ ctl = "running"
    /\ response # None /\ ~HasMore(response)
    /\ Returns
    /\ UNCHANGED <<idsVars, otherVars, argVars, pulls, driverVars, stVars, now, http_log, pages, out>>

\* Denied with the test of data[0] left out
Denied_Unchecked(r) == FALSE

\* Denied testing data[0] on the first page only
Denied_FirstOnly(r) == ~r.ok /\ pages = <<>>

\* not response['data'][0]
Denied(r) == ~r.ok

\* top of the while loop, the post, and what follows up to the first yield
GI_Fetch ==
    /\ driver = "get_iter" /\ pc = "gi_loop" /\ ctl = "running"
    /\ response = None \/ HasMore(response)
    /\ Len(pages) < MaxPages
    /\ LET off == IF response # None THEN offset + OffsetDiff ELSE offset
       IN \E r \in LoadSectionResps(Len(pages) + 1) :
            /\ offset' = off
            /\ Listing([Request("load_section", now) EXCEPT !.offset = off], r)
            /\ IF Denied(r)
               THEN Raises("AccessDenied") /\ UNCHANGED <<ids, raw_iter, stVars>>
               ELSE IF raw
               THEN Goes("gi_raw") /\ raw_iter' = r.list /\ UNCHANGED <<ids, stVars>>
               ELSE LET got == scrap_ids(r.list).ids
                    IN /\ ids' = got
                       /\ raw_iter' = raw_iter
                       /\ IF got = <<>>
                          THEN Returns /\ UNCHANGED stVars
                          ELSE CallScrapTracks(got, "gi_after")
    /\ UNCHANGED <<idsVars, otherVars, argVars, pulls, offset_left, desired_index, now, out>>

\* for i in response['data'][0]['list']: ... yield i
GI_RawYield ==
    /\ driver = "get_iter" /\ pc = "gi_raw" /\ ctl = "running"
    /\ raw_iter # <<>>
    /\ Yields(RawRecord(Head(raw_iter)))
    /\ raw_iter' = Tail(raw_iter)
    /\ UNCHANGED <<idsVars, otherVars, argVars, pulls, pc, exc, response, offset, offset_left,
                   desired_index, ids, stVars, now, http_log, pages>>

\* the raw for loop is exhausted: continue
GI_RawDone ==
    /\ driver = "get_iter" /\ pc = "gi_raw" /\ ctl = "running"
    /\ raw_iter = <<>>
    /\ Goes("gi_loop")
    /\ UNCHANGED <<idsVars, otherVars, argVars, pulls, driverVars, stVars, now, http_log, pages, out>>

\* after yield from scrap_tracks: advance the offset or break
GI_After ==
    /\ driver = "get_iter" /\ pc = "gi_after" /\ ctl = "running"
    /\ IF HasMore(response)
       THEN Goes("gi_loop") /\ offset' = offset + OffsetDiff
       ELSE Returns /\ offset' = offset
    /\ UNCHANGED <<idsVars, otherVars, argVars, pulls, response, offset_left, desired_index, ids,
                   raw_iter, stVars, now, http_log, pages, out>>

-----------------------------------------------------------------------------
(* VkAudio.search_iter *)

\* search_options.value in playlist["list"][0][AUDIO_TUPLE["CONTEXT"]], for
\* the contexts the upstream sends here
Contains(context, value) ==
    CASE context = "search_global_audios" -> value = "search_global_audios"
      [] context = "search_owned_audios"  -> value = "search_owned_audios"
      [] OTHER -> FALSE

SearchOption == "search_global_audios"

\* the for loop choosing desired_index (0-based)
DesiredIndex(playlists, value) ==
    LET hits == {i \in 1..Len(playlists) :
                    /\ playlists[i].type = "search"
                    /\ Len(playlists[i].list) # 0
                    /\ Contains(playlists[i].list[1].context, value)}
    IN IF hits = {} THEN 0
       ELSE (CHOOSE i \in hits : \A j \in hits : i <= j) - 1

\* json_response['payload'][1][1]['playlists'][desired_index]['list']
SearchList == response.playlists[desired_index + 1].list

\* SearchSlice cutting at offset without regard to offset_left: ids[offset:]
SearchSlice_FromOffset(x) == Drop(x, arg_offset)

\* ids[offset - offset_left:] if offset_left < offset else ids
SearchSlice(x) ==
    IF offset_left < arg_offset THEN Drop(x, arg_offset - offset_left) ELSE x

\* SearchRaw with the raw flag ignored
SearchRaw_Ignored == FALSE

\* if not raw: ... else: ...
SearchRaw == raw

\* the first post and the choice of the playlist
SI_First ==
    /\ driver = "search_iter" /\ pc = "si_start" /\ ctl = "running"
    /\ \E layout \in {1, 2} : \E r \in SearchResps("section", 1, layout) :
         /\ Listing(Request("section", now), r)
         /\ desired_index' = DesiredIndex(r.playlists, SearchOption)
    /\ Goes("si_loop")
    /\ UNCHANGED <<idsVars, otherVars, argVars, pulls, offset, offset_left, ids, raw_iter, stVars,
                   now, out>>

\* the body of the while loop up to its first yield
SI_Page ==
    /\ driver = "search_iter" /\ pc = "si_loop" /\ ctl = "running"
    /\ LET got == scrap_ids(SearchList).ids
       IN IF got = <<>>
          THEN Returns /\ UNCHANGED <<ids, raw_iter, stVars>>
          ELSE IF offset_left + Len(got) >= arg_offset
          THEN LET cut == SearchSlice(got)
               IN /\ ids' = cut
                  /\ IF ~SearchRaw
                     THEN CallScrapTracks(cut, "si_after") /\ raw_iter' = raw_iter
                     ELSE Goes("si_raw") /\ raw_iter' = SearchList
                                         /\ UNCHANGED stVars
          ELSE Goes("si_after") /\ ids' = got /\ UNCHANGED <<raw_iter, stVars>>
    /\ UNCHANGED <<idsVars, otherVars, argVars, pulls, response, offset, offset_left, desired_index,
                   now, http_log, pages, out>>

\* for i in ...['list']: ... yield i
SI_RawYield ==
    /\ driver = "search_iter" /\ pc = "si_raw" /\ ctl = "running"
    /\ raw_iter # <<>>
    /\ Yields(RawRecord(Head(raw_iter)))
    /\ raw_iter' = Tail(raw_iter)
    /\ UNCHANGED <<idsVars, otherVars, argVars, pulls, pc, exc, response, offset, offset_left,
                   desired_index, ids, stVars, now, http_log, pages>>

SI_RawDone ==
    /\ driver = "search_iter" /\ pc = "si_raw" /\ ctl = "running"
    /\ raw_iter = <<>>
    /\ Goes("si_after")
    /\ UNCHANGED <<idsVars, otherVars, argVars, pulls, driverVars, stVars, now, http_log, pages, out>>

\* offset_left += len(ids), then the load_catalog_section post
SI_After ==
    /\ driver = "search_iter" /\ pc = "si_after" /\ ctl = "running"
    /\ Len(pages) < MaxPages
    /\ offset_left' = offset_left + Len(ids)
    /\ \E r \in SearchResps("catalog", Len(pages) + 1, response.layout) :
         Listing(CatalogRequest(response), r)
    /\ Goes("si_loop")
    /\ UNCHANGED <<idsVars, otherVars, argVars, pulls, offset, desired_index, ids, raw_iter, stVars,
                   now, out>>

-----------------------------------------------------------------------------
(* VkAudio.get_updates_iter *)

\* FirstOfEach taking every record of every sub-playlist
FirstOfEach_All(playlists) ==
    Concat([k \in 1..Len(playlists) |-> playlists[k].list])

\* [i[0] for i in updates if i]
FirstOfEach(playlists) ==
    LET full == SelectSeq(playlists, LAMBDA pl : pl.list # <<>>)
    IN [k \in 1..Len(full) |-> full[k].list[1]]

GU_First ==
    /\ driver = "get_updates_iter" /\ pc = "gu_start" /\ ctl = "running"
    /\ \E r \in UpdatesResps("section", 1) : Listing(Request("section", now), r)
    /\ Goes("gu_loop")
    /\ UNCHANGED <<idsVars, otherVars, argVars, pulls, offset, offset_left, desired_index, ids,
                   raw_iter, stVars, now, out>>

\* the body of the while loop up to its first yield
GU_Page ==
    /\ driver = "get_updates_iter" /\ pc = "gu_loop" /\ ctl = "running"
    /\ LET got == scrap_ids(FirstOfEach(response.playlists)).ids
       IN /\ ids' = got
          /\ IF got = <<>>
             THEN Returns /\ UNCHANGED stVars
             ELSE CallScrapTracks(got, "gu_after")
    /\ UNCHANGED <<idsVars, otherVars, argVars, pulls, response, offset, offset_left, desired_index,
                   raw_iter, now, http_log, pages, out>>

\* GU_Break without the test of len(updates): break after every page
GU_Break_Always ==
    /\ driver = "get_updates_iter" /\ pc = "gu_after" /\ ctl = "running"
    /\ Returns
    /\ UNCHANGED <<idsVars, otherVars, argVars, pulls, driverVars, stVars, now, http_log, pages, out>>

\* if len(updates) < 11: break
GU_Break ==
    /\ driver = "get_updates_iter" /\ pc = "gu_after" /\ ctl = "running"
    /\ Len(response.playlists) < FULL_UPDATES_PAGE
    /\ Returns
    /\ UNCHANGED <<idsVars, otherVars, argVars, pulls, driverVars, stVars, now, http_log, pages, out>>

\* the load_catalog_section post
GU_Next ==
    /\ driver = "get_updates_iter" /\ pc = "gu_after" /\ ctl = "running"
    /\ ~(Len(response.playlists) < FULL_UPDATES_PAGE)
    /\ Len(pages) < MaxPages
    /\ \E r \in UpdatesResps("catalog", Len(pages) + 1) :
         Listing(CatalogRequest(response), r)
    /\ Goes("gu_loop")
    /\ UNCHANGED <<idsVars, otherVars, argVars, pulls, offset, offset_left, desired_index, ids,
                   raw_iter, stVars, now, out>>

-----------------------------------------------------------------------------
(* VkAudio.get_popular_iter *)

\* PopularSlice with the offset ignored
PopularSlice_Whole(x) == x

\* ids[offset:] if offset else ids
PopularSlice(x) == IF arg_offset # 0 THEN Drop(x, arg_offset) ELSE x

GP_Fetch ==
    /\ driver = "get_popular_iter" /\ pc = "gp_start" /\ ctl = "running"
    /\ \E r \in AudioPageResps(1) :
         /\ Listing(Request("chart", now), r)
         /\ IF ~r.ok
            THEN Raises("AttributeError") /\ UNCHANGED <<ids, stVars>>
            ELSE LET got == scrap_ids(r.list).ids
                 IN /\ ids' = got
                    /\ CallScrapTracks(PopularSlice(got), "done")
    /\ UNCHANGED <<idsVars, otherVars, argVars, pulls, offset, offset_left, desired_index, raw_iter,
                   now, out>>

-----------------------------------------------------------------------------
(* VkAudio.get_news_iter *)

\* NewsSlice cutting at offset without regard to offset_left: ids[offset:]
NewsSlice_FromOffset(x) == Drop(x, arg_offset)

\* ids if offset_left >= offset else ids[offset - offset_left:]
NewsSlice(x) ==
    IF offset_left >= arg_offset THEN x ELSE Drop(x, arg_offset - offset_left)

\* if offset_left + len(ids) >= offset: yield from scrap_tracks(...)
NewsResolve(got) ==
    /\ ids' = got
    /\ IF offset_left + Len(got) >= arg_offset
       THEN CallScrapTracks(NewsSlice(got), "gn_count")
       ELSE Goes("gn_count") /\ UNCHANGED stVars

\* the first page
GN_First ==
    /\ driver = "get_news_iter" /\ pc = "gn_start" /\ ctl = "running"
    /\ \E r \in AudioPageResps(1) :
         /\ Listing(Request("new_songs", now), r)
         /\ IF ~r.ok
            THEN Raises("AttributeError") /\ UNCHANGED <<ids, stVars>>
            ELSE NewsResolve(scrap_ids(r.list).ids)
    /\ UNCHANGED <<idsVars, otherVars, argVars, pulls, offset, offset_left, desired_index, raw_iter,
                   now, out>>

\* offset_left += len(ids)
GN_Count ==
    /\ driver = "get_news_iter" /\ pc = "gn_count" /\ ctl = "running"
    /\ offset_left' = offset_left + Len(ids)
    /\ Goes("gn_loop")
    /\ UNCHANGED <<idsVars, otherVars, argVars, pulls, response, offset, desired_index, ids, raw_iter,
                   stVars, now, http_log, pages, out>>

\* json_response['sectionData'] on an answer that has no such key
GN_KeyError ==
    /\ driver = "get_news_iter" /\ pc = "gn_loop" /\ ctl = "running"
    /\ "sectionData" \notin Keys(response)
    /\ Raises("KeyError: 'sectionData'")
    /\ UNCHANGED <<idsVars, otherVars, argVars, pulls, driverVars, stVars, now, http_log, pages, out>>

\* the load_catalog_section post and the body of the while loop
GN_Page ==
    /\ driver = "get_news_iter" /\ pc = "gn_loop" /\ ctl = "running"
    /\ "sectionData" \in Keys(response)
    /\ Len(pages) < MaxPages
    /\ \E r \in CatalogListResps(Len(pages) + 1) :
         /\ Listing(CatalogRequest(response), r)
         /\ LET got == scrap_ids(r.list).ids
            IN IF got = <<>>
               THEN Returns /\ ids' = got /\ UNCHANGED stVars
               ELSE NewsResolve(got)
    /\ UNCHANGED <<idsVars, otherVars, argVars, pulls, offset, offset_left, desired_index, raw_iter,
                   now, out>>

-----------------------------------------------------------------------------
(* A post that raises (connection lost, answer that is not JSON): nothing   *)
(* in these generators catches it                                           *)

\* the generator stands right before a post
AtRequest ==
    CASE pc = "st"       -> data_audio = <<>> /\ st_i < Len(IdsGroups(st_ids))
      [] pc = "gi_loop"  -> response = None \/ HasMore(response)
      [] pc = "gu_after" -> ~(Len(response.playlists) < FULL_UPDATES_PAGE)
      [] pc = "gn_loop"  -> "sectionData" \in Keys(response)
      [] pc \in {"si_start", "si_after", "gu_start", "gp_start", "gn_start",
                 "ga_loop", "ab_start"} -> TRUE
      [] OTHER           -> FALSE

\* the post it makes there
PendingRequest ==
    CASE pc = "st" ->
            [Request("reload_audio", IssueTime(now, last_request))
                EXCEPT !.ids = ReloadPayload(IdsGroups(st_ids)[st_i + 1])]
      [] pc = "gi_loop" ->
            [Request("load_section", now)
                EXCEPT !.offset = IF response # None THEN offset + OffsetDiff
                                  ELSE offset]
      [] pc \in {"si_start", "gu_start"} -> Request("section", now)
      [] pc = "gp_start" -> Request("chart", now)
      [] pc = "gn_start" -> Request("new_songs", now)
      [] pc = "ga_loop"  -> [Request("audio_playlists", now) EXCEPT !.offset = offset]
      [] pc = "ab_start" -> Request("audio_page", now)
      [] OTHER -> CatalogRequest(response)

\* PostRaises with the exception caught and the post made again
PostRaises_Retried == Goes(pc)

\* the exception of the post leaves the generator
PostRaises == Raises("RequestException")

HttpRaises ==
    /\ ctl = "running" /\ AtRequest
    /\ \E lat \in (IF jitter THEN 0..MaxLatency ELSE {0}) :
         /\ http_log' = Append(http_log, [PendingRequest EXCEPT !.failed = TRUE])
         /\ now' = PendingRequest.t + lat
    /\ offset' = IF pc = "gi_loop" THEN PendingRequest.offset ELSE offset
    /\ offset_left' = IF pc = "si_after" THEN offset_left + Len(ids) ELSE offset_left
    /\ PostRaises
    /\ UNCHANGED <<idsVars, otherVars, argVars, pulls, response, desired_index, ids,
                   raw_iter, stVars, pages, out>>

-----------------------------------------------------------------------------
(* VkAudio.get_albums_iter.  Of an album page the model keeps the stats     *)
(* text of each album; raw_iter holds the albums of the page not yet        *)
(* yielded.                                                                 *)

\* the stats text of album j of page p: "<10p+j> x", or a text without a number
AlbumText(p, j, numbered) ==
    IF numbered THEN Digits(10 * p + j) \o <<" ", "x">> ELSE <<"x">>

\* the answer to act=audio_playlists: an empty text, or a page of albums
\* (none, or some, the first of them possibly without a number of plays)
AlbumPageResps(p) ==
    {[Resp("albums", p) EXCEPT !.ok = FALSE]} \cup
    {[Resp("albums", p) EXCEPT
         !.list = [j \in 1..n |-> AlbumText(p, j, numbered \/ j > 1)]] :
        n \in 0..MaxPageLen, numbered \in BOOLEAN}

\* the get, the test of response.text, scrap_albums and the test of albums
GA_Fetch ==
    /\ driver = "get_albums_iter" /\ pc = "ga_loop" /\ ctl = "running"
    /\ Len(pages) < MaxPages
    /\ \E r \in AlbumPageResps(Len(pages) + 1) :
         /\ Listing([Request("audio_playlists", now) EXCEPT !.offset = offset], r)
         /\ IF ~r.ok
            THEN Raises("AccessDenied") /\ raw_iter' = raw_iter
            ELSE LET found == scrap_albums(r.list)
                 IN IF found = <<>>
                    THEN Returns /\ raw_iter' = raw_iter
                    ELSE Goes("ga_yield") /\ raw_iter' = found
    /\ UNCHANGED <<idsVars, otherVars, argVars, pulls, offset, offset_left, desired_index,
                   ids, stVars, now, out>>

\* yield from albums
GA_Yield ==
    /\ driver = "get_albums_iter" /\ pc = "ga_yield" /\ ctl = "running"
    /\ raw_iter # <<>>
    /\ Yields(Head(raw_iter))
    /\ raw_iter' = Tail(raw_iter)
    /\ UNCHANGED <<idsVars, otherVars, argVars, pulls, pc, exc, response, offset, offset_left,
                   desired_index, ids, stVars, now, http_log, pages>>

\* GA_Done leaving the offset where it is
GA_Done_SameOffset ==
    /\ driver = "get_albums_iter" /\ pc = "ga_yield" /\ ctl = "running"
    /\ raw_iter = <<>>
    /\ Goes("ga_loop")
    /\ UNCHANGED <<idsVars, otherVars, argVars, pulls, driverVars, stVars, now, http_log,
                   pages, out>>

\* offset += ALBUMS_PER_USER_PAGE
GA_Done ==
    /\ driver = "get_albums_iter" /\ pc = "ga_yield" /\ ctl = "running"
    /\ raw_iter = <<>>
    /\ offset' = offset + ALBUMS_PER_USER_PAGE
    /\ Goes("ga_loop")
    /\ UNCHANGED <<idsVars, otherVars, argVars, pulls, response, offset_left, desired_index,
                   ids, raw_iter, stVars, now, http_log, pages, out>>

InitAlbumPages ==
    /\ IdleIds
    /\ driver = "get_albums_iter" /\ raw = FALSE /\ arg_offset = 0 /\ album_id = FALSE
    /\ convert_m3u8_links = TRUE /\ served = ShortPages
    /\ jitter = FALSE /\ IdleOpener
    /\ pc = "ga_loop" /\ ctl = "suspended" /\ exc = "none"
    /\ IdleDriver /\ IdleTracks /\ IdleEnv
    /\ IdleUrl /\ IdleAlbums /\ IdleWorkers

NextAlbumPages == Pull \/ HttpRaises \/ GA_Fetch \/ GA_Yield \/ GA_Done

SpecAlbumPages == InitAlbumPages /\ [][NextAlbumPages]_vars

-----------------------------------------------------------------------------
(* VkAudio.get_audio_by_id: a plain function.  It makes the scrap_tracks    *)
(* generator and calls next() on it once; out receives what next() returns. *)

\* the page of one audio: without the root element, or with the data-audio
\* records of its audio items that are not disabled
AudioItemResps(p) ==
    {[Resp("audio_page", p) EXCEPT !.ok = FALSE]} \cup
    {[Resp("audio_page", p) EXCEPT !.list = l] : l \in PageLists(p)}

\* scrap_ids_from_html(html, filter_root_el): ValueError without the root
\* element, else the identities of the audio items as scrap_ids builds them
scrap_ids_from_html(page) ==
    IF ~page.ok THEN [err |-> "ValueError", ids |-> <<>>] ELSE scrap_ids(page.list)

\* bool(track) for a generator object: it defines neither __bool__ nor
\* __len__, so it is true whatever it will yield
Truth(generator) == TRUE

\* the get, scrap_ids_from_html, track = scrap_tracks(...), and the test
\* `if track`; next(track) then runs the generator up to its first yield
AB_Fetch ==
    /\ driver = "get_audio_by_id" /\ pc = "ab_start" /\ ctl = "running"
    /\ \E r \in AudioItemResps(1) :
         /\ Listing(Request("audio_page", now), r)
         /\ LET found == scrap_ids_from_html(r)
            IN IF found.err # "none"
               THEN Raises(found.err) /\ UNCHANGED <<ids, stVars>>
               ELSE /\ ids' = found.ids
                    /\ IF Truth(found.ids)
                       THEN CallScrapTracks(found.ids, "ab_stop")
                       ELSE Returns /\ UNCHANGED stVars
    /\ UNCHANGED <<idsVars, otherVars, argVars, pulls, offset, offset_left, desired_index,
                   raw_iter, now, out>>

\* return next(track): the generator has yielded
AB_Return ==
    /\ driver = "get_audio_by_id" /\ pc = "st" /\ ctl = "suspended"
    /\ Returns
    /\ UNCHANGED <<idsVars, otherVars, argVars, pulls, driverVars, stVars, now, http_log,
                   pages, out>>

\* next(track) on a generator that returns without a yield
AB_StopIteration ==
    /\ driver = "get_audio_by_id" /\ pc = "ab_stop" /\ ctl = "running"
    /\ Raises("StopIteration")
    /\ UNCHANGED <<idsVars, otherVars, argVars, pulls, driverVars, stVars, now, http_log,
                   pages, out>>

InitById ==
    /\ IdleIds
    /\ driver = "get_audio_by_id" /\ raw = FALSE /\ arg_offset = 0 /\ album_id = FALSE
    /\ convert_m3u8_links \in BOOLEAN /\ served = ShortPages
    /\ jitter = TRUE /\ IdleOpener
    /\ pc = "ab_start" /\ ctl = "running" /\ exc = "none"
    /\ IdleDriver /\ IdleTracks /\ IdleEnv
    /\ IdleUrl /\ IdleAlbums /\ IdleWorkers

NextById ==
    \/ AB_Fetch \/ AB_Return \/ AB_StopIteration
    \/ ST_Chunk \/ ST_KeyError \/ ST_Yield \/ ST_Return
    \/ HttpRaises

SpecById == InitById /\ [][NextById]_vars

-----------------------------------------------------------------------------
(* scrap_tracks iterated on its own *)

Identity(i) == <<Str(PyInt(-7)), Str(PyInt(i)), <<"c">>, <<"f">>>>

InitTracks ==
    /\ IdleIds
    /\ driver = "scrap_tracks" /\ raw = FALSE /\ arg_offset = 0 /\ album_id = FALSE
    /\ convert_m3u8_links \in BOOLEAN /\ served = ShortPages
    /\ jitter = TRUE /\ IdleOpener
    /\ pc = "st" /\ ctl = "suspended" /\ exc = "none"
    /\ IdleDriver /\ IdleEnv
    /\ IdleUrl /\ IdleAlbums /\ IdleWorkers
    /\ \E n \in 0..MaxIds : st_ids = [i \in 1..n |-> Identity(i)]
    /\ st_i = 0 /\ last_request = 0 /\ data_audio = <<>> /\ st_ret = "done"

NextTracks == Pull \/ ST_Chunk \/ ST_KeyError \/ ST_Yield \/ ST_Return \/ HttpRaises

SpecTracks == InitTracks /\ [][NextTracks]_vars

-----------------------------------------------------------------------------
(* Two threads of the embedding application, each consuming its own         *)
(* scrap_tracks generator over the one http session.  Each invocation has   *)
(* its own locals; the clock and the session are shared.  A thread may be   *)
(* held up for any time between two steps (Tick), which covers the time     *)
(* its consumer spends on the tracks it is handed.                          *)

Workers == {1, 2}

Invocation(w, n) ==
    [ids |-> [i \in 1..n |-> Identity(100 * w + i)], i |-> 0, last_request |-> 0,
     wake |-> 0, at |-> "top", sent |-> <<>>, answered |-> <<>>]

InitShared ==
    /\ IdleIds
    /\ driver = "threads" /\ raw = FALSE /\ arg_offset = 0 /\ album_id = FALSE
    /\ convert_m3u8_links = TRUE /\ served = ShortPages
    /\ jitter = FALSE /\ IdleOpener
    /\ pc = "call" /\ ctl = "running" /\ exc = "none"
    /\ IdleDriver /\ IdleTracks /\ IdleEnv
    /\ IdleUrl /\ IdleAlbums
    /\ \E n \in [Workers -> {1, SharedIds}] :
          workers = [w \in Workers |-> Invocation(w, n[w])]

\* Stamp writing one timestamp shared by all invocations
Stamp_Shared(ws, w, t) == [v \in DOMAIN ws |-> [ws[v] EXCEPT !.last_request = t]]

\* last_request = time.time(), a local of invocation w
Stamp(ws, w, t) == [ws EXCEPT ![w].last_request = t]

sharedFrame ==
    <<idsVars, urlVars, albumVars, opener, argVars, pc, ctl, exc, driverVars, stVars,
      pages, pulls, out>>

\* delay > 0: time.sleep(delay)
W_Sleep(w) ==
    /\ driver = "threads"
    /\ workers[w].at = "top" /\ workers[w].i < Len(IdsGroups(workers[w].ids))
    /\ Delay(now, workers[w].last_request) > 0
    /\ workers' = [workers EXCEPT
                      ![w].at = "sleeping",
                      ![w].wake = IssueTime(now, workers[w].last_request)]
    /\ UNCHANGED <<sharedFrame, now, http_log>>

\* http.post(...): at once when delay <= 0, else once the sleep is over
W_Post(w) ==
    /\ driver = "threads"
    /\ \/ /\ workers[w].at = "top"
          /\ workers[w].i < Len(IdsGroups(workers[w].ids))
          /\ ~(Delay(now, workers[w].last_request) > 0)
       \/ /\ workers[w].at = "sleeping"
          /\ now >= workers[w].wake
    /\ http_log' = Append(http_log,
           [Request("reload_audio", now)
               EXCEPT !.ids = ReloadPayload(IdsGroups(workers[w].ids)[workers[w].i + 1])])
    /\ workers' = [workers EXCEPT ![w].at = "posted",
                                  ![w].sent = Append(workers[w].sent, now)]
    /\ UNCHANGED <<sharedFrame, now>>

\* the answer arrives: last_request = time.time(), then the next ids_group
W_Answer(w) ==
    /\ driver = "threads"
    /\ workers[w].at = "posted"
    /\ workers' = [Stamp(workers, w, now) EXCEPT
                      ![w].answered = Append(workers[w].answered, now),
                      ![w].i = workers[w].i + 1,
                      ![w].at = "top"]
    /\ UNCHANGED <<sharedFrame, now, http_log>>

\* time passes
Tick ==
    /\ driver = "threads"
    /\ now < StartTime + MaxClock
    /\ now' = now + 1
    /\ UNCHANGED <<sharedFrame, workers, http_log>>

NextShared ==
    \/ Tick
    \/ \E w \in Workers : W_Sleep(w) \/ W_Post(w) \/ W_Answer(w)

SpecShared == InitShared /\ [][NextShared]_vars

-----------------------------------------------------------------------------
(* The generators iterated by a consumer *)

Start(d) ==
    CASE d = "get_iter"         -> "gi_loop"
      [] d = "search_iter"      -> "si_start"
      [] d = "get_updates_iter" -> "gu_start"
      [] d = "get_popular_iter" -> "gp_start"
      [] d = "get_news_iter"    -> "gn_start"

InitDrivers ==
    /\ IdleIds
    /\ driver \in {"get_iter", "search_iter", "get_updates_iter",
                   "get_popular_iter", "get_news_iter"}
    /\ raw \in (IF driver \in {"get_iter", "search_iter"} THEN BOOLEAN ELSE {FALSE})
    /\ arg_offset \in (IF driver \in {"search_iter", "get_popular_iter", "get_news_iter"}
                       THEN 0..MaxOffset ELSE {0})
    /\ album_id \in (IF driver = "get_iter" THEN BOOLEAN ELSE {FALSE})
    /\ convert_m3u8_links = TRUE /\ served = ShortPages
    /\ jitter = FALSE /\ IdleOpener
    /\ pc = Start(driver) /\ ctl = "suspended" /\ exc = "none"
    /\ IdleDriver /\ IdleTracks /\ IdleEnv
    /\ IdleUrl /\ IdleAlbums /\ IdleWorkers

Next ==
    \/ Pull
    \/ HttpRaises
    \/ ST_Chunk \/ ST_KeyError \/ ST_Yield \/ ST_Return
    \/ GI_Break \/ GI_Fetch \/ GI_RawYield \/ GI_RawDone \/ GI_After
    \/ SI_First \/ SI_Page \/ SI_RawYield \/ SI_RawDone \/ SI_After
    \/ GU_First \/ GU_Page \/ GU_Break \/ GU_Next
    \/ GP_Fetch
    \/ GN_First \/ GN_Count \/ GN_KeyError \/ GN_Page

Spec == InitDrivers /\ [][Next]_vars

(* search_iter (not raw) against an upstream that also serves long pages *)

LongPages == {<<0, 0>>, <<1, 1>>, <<0, MaxPageLen>>, <<0, LongPage>>}

InitSearch ==
    /\ IdleIds
    /\ driver = "search_iter" /\ raw = FALSE /\ album_id = FALSE
    /\ arg_offset \in {0, MaxOffset, DeepOffset}
    /\ convert_m3u8_links = TRUE /\ served = LongPages
    /\ jitter = FALSE /\ IdleOpener
    /\ pc = Start(driver) /\ ctl = "suspended" /\ exc = "none"
    /\ IdleDriver /\ IdleTracks /\ IdleEnv
    /\ IdleUrl /\ IdleAlbums /\ IdleWorkers

NextSearch ==
    \/ Pull
    \/ HttpRaises
    \/ ST_Chunk \/ ST_KeyError \/ ST_Yield \/ ST_Return
    \/ SI_First \/ SI_Page \/ SI_After

SpecSearch == InitSearch /\ [][NextSearch]_vars

-----------------------------------------------------------------------------
(* FilesOpener of vk_api/upload.py.  A file object is a handle: who opened  *)
(* it, whether it is open, and during which call of open_files it was       *)
(* opened.  The caller passes paths of files that exist, paths that cannot  *)
(* be opened, and file-like objects it has opened itself.                   *)

PathKinds == {"file", "missing", "filelike"}

\* FilesOpener(paths), the file-like objects of the caller being handles
\* 1, 2, ... in the order of paths
NewOpener(kinds) ==
    LET likes(k) == Cardinality({j \in 1..k : kinds[j] = "filelike"})
    IN [paths        |-> [k \in 1..Len(kinds) |->
                            [kind |-> kinds[k],
                             h    |-> IF kinds[k] = "filelike" THEN likes(k) ELSE 0]],
        opened_files |-> <<>>,
        handles      |-> [j \in 1..likes(Len(kinds)) |->
                            [owner |-> "caller", open |-> TRUE, call |-> 0]],
        files        |-> <<>>, calls |-> 0, at |-> "new", err |-> "none"]

\* close_files: f.close() for every f of opened_files, then the list reset
close_files(o) ==
    [o EXCEPT
        !.handles = [k \in 1..Len(o.handles) |->
                        IF \E j \in 1..Len(o.opened_files) : o.opened_files[j] = k
                        THEN [o.handles[k] EXCEPT !.open = FALSE]
                        ELSE o.handles[k]],
        !.opened_files = <<>>]

\* the for loop of open_files from item x (counted from 1) on: open() of a
\* path that cannot be opened raises and ends the loop
RECURSIVE OpenLoop(_, _)
OpenLoop(o, x) ==
    IF x > Len(o.paths) THEN o
    ELSE LET file == o.paths[x]
             f    == Len(o.handles) + 1
         IN IF file.kind = "filelike"
            THEN OpenLoop([o EXCEPT !.files = Append(@, [key |-> x - 1, f |-> file.h])],
                          x + 1)
            ELSE IF file.kind = "missing"
            THEN [o EXCEPT !.err = "FileNotFoundError", !.files = <<>>]
            ELSE OpenLoop(
                    [o EXCEPT
                        !.handles = Append(@, [owner |-> "opener", open |-> TRUE,
                                               call |-> o.calls]),
                        !.opened_files = Append(@, f),
                        !.files = Append(@, [key |-> x - 1, f |-> f])],
                    x + 1)

\* open_files without the close_files() it starts with
open_files_NoClose(o) ==
    OpenLoop([o EXCEPT !.files = <<>>, !.calls = @ + 1, !.err = "none"], 1)

\* open_files: close_files(), then the loop; files is what it returns
open_files(o) ==
    OpenLoop([close_files(o) EXCEPT !.files = <<>>, !.calls = @ + 1, !.err = "none"], 1)

openerFrame ==
    <<idsVars, urlVars, albumVars, workers, argVars, pc, ctl, exc, driverVars, stVars,
      now, http_log, pages, pulls, out>>

InitOpener ==
    /\ IdleIds
    /\ driver = "FilesOpener" /\ raw = FALSE /\ arg_offset = 0 /\ album_id = FALSE
    /\ convert_m3u8_links = TRUE /\ served = ShortPages /\ jitter = FALSE
    /\ pc = "call" /\ ctl = "running" /\ exc = "none"
    /\ IdleDriver /\ IdleTracks /\ IdleEnv
    /\ IdleUrl /\ IdleAlbums /\ IdleWorkers
    /\ \E kinds \in SeqsUpTo(PathKinds, MaxPaths) :
          kinds # <<>> /\ opener = NewOpener(kinds)

\* with opener as files: __enter__; when it raises, __exit__ is not called
FO_Enter ==
    /\ driver = "FilesOpener"
    /\ opener.at \in {"new", "exited"} /\ opener.calls < MaxOpens
    /\ LET o == open_files(opener)
       IN opener' = [o EXCEPT !.at = IF o.err = "none" THEN "inside" ELSE "raised"]
    /\ UNCHANGED openerFrame

\* the with block is left, normally or by an exception: __exit__
FO_Exit ==
    /\ driver = "FilesOpener" /\ opener.at = "inside"
    /\ opener' = [close_files(opener) EXCEPT !.at = "exited"]
    /\ UNCHANGED openerFrame

\* open_files() called by the caller, inside a with block or without one
FO_OpenFiles ==
    /\ driver = "FilesOpener"
    /\ opener.at \in {"new", "inside", "opened", "failed", "closed"}
    /\ opener.calls < MaxOpens
    /\ LET o == open_files(opener)
       IN opener' = [o EXCEPT !.at = IF opener.at = "inside" THEN "inside"
                                    ELSE IF o.err = "none" THEN "opened"
                                    ELSE "failed"]
    /\ UNCHANGED openerFrame

\* close_files() called by the caller
FO_CloseFiles ==
    /\ driver = "FilesOpener"
    /\ opener.at \in {"inside", "opened", "failed"}
    /\ opener.opened_files # <<>>
    /\ opener' = [close_files(opener) EXCEPT
                      !.at = IF opener.at = "inside" THEN "inside" ELSE "closed"]
    /\ UNCHANGED openerFrame

NextOpener == FO_Enter \/ FO_Exit \/ FO_OpenFiles \/ FO_CloseFiles

SpecOpener == InitOpener /\ [][NextOpener]_vars

-----------------------------------------------------------------------------
(* Observations on a run *)

ReloadRequests == SelectSeq(http_log, LAMBDA q : q.act = "reload_audio")

LoadSectionRequests == SelectSeq(http_log, LAMBDA q : q.act = "load_section")

\* the list of records the driver reads from listing answer number i
ListRead(i) ==
    CASE driver = "search_iter" ->
            IF desired_index + 1 <= Len(pages[i].playlists)
            THEN pages[i].playlists[desired_index + 1].list ELSE <<>>
      [] driver = "get_updates_iter" -> FirstOfEach(pages[i].playlists)
      [] OTHER -> pages[i].list

\* the identities of listing answer number i
PageIds(i) == scrap_ids(ListRead(i)).ids

\* the number of identities in the listing answers before number i
RECURSIVE IdsBefore(_)
IdsBefore(i) == IF i <= 1 THEN 0 ELSE IdsBefore(i - 1) + Len(PageIds(i - 1))

\* the records of the first i listing answers, in order
RECURSIVE RecordsUpTo(_)
RecordsUpTo(i) == IF i = 0 THEN <<>> ELSE RecordsUpTo(i - 1) \o ListRead(i)

\* hash token number k (0-based) of a record, "" when there is none
Token(rec, k) ==
    LET toks == Split(rec.hashes, "/")
    IN IF k + 1 <= Len(toks) THEN toks[k + 1] ELSE <<>>

SixTokens(rec) == Len(Split(rec.hashes, "/")) >= 6

-----------------------------------------------------------------------------
(* C1: scrap_tracks, fully consumed on N identities, issues exactly        *)
(* ceil(N/10) reload_audio requests, and request number k (from 0) carries *)
(* exactly the identities at positions 10k .. min(10k+9, N-1).             *)
C1_ChunkRequests ==
    LET N == Len(st_ids)
    IN /\ Len(http_log) <= (N + 9) \div 10
       /\ (ctl = "finished" /\ exc = "none") => Len(http_log) = (N + 9) \div 10
       /\ \A k \in 1..Len(http_log) :
            /\ http_log[k].act = "reload_audio"
            /\ http_log[k].ids =
                 ReloadPayload(SubSeq(st_ids, 10 * (k - 1) + 1, Min(10 * k, N)))

C1_Witness == ctl = "finished" /\ Len(st_ids) > 20 /\ Len(http_log) = 3

(* C2: within one scrap_tracks invocation two consecutive reload_audio     *)
(* requests are at least 1.5 s (3 ticks) apart, whatever the latency of    *)
(* the answers and the timing of the pulls.                                *)
C2_PacedRequests ==
    \A k \in 2..Len(http_log) :
        http_log[k].t - http_log[k - 1].t >= RPS_DELAY_RELOAD_AUDIO

C2_Witness ==
    /\ Len(http_log) >= 3
    /\ http_log[2].t - http_log[1].t = RPS_DELAY_RELOAD_AUDIO
    /\ http_log[3].t - http_log[2].t > RPS_DELAY_RELOAD_AUDIO

(* C3: every pagination driver, fed well-formed answers (no post raises,   *)
(* every answer has its keys), ends by returning normally: no exception    *)
(* reaches the consumer.                                                   *)
C3_DriversReturnNormally ==
    (/\ \A i \in 1..Len(pages) : pages[i].ok
     /\ exc \notin {"RequestException", "KeyError: 'data'"}) => exc = "none"

\* the reload_audio payloads that resolve the first i pages past arg_offset
RECURSIVE PayloadsPastOffset(_)
PayloadsPastOffset(i) ==
    IF i = 0 THEN <<>>
    ELSE LET groups == IdsGroups(Drop(PageIds(i), arg_offset - IdsBefore(i)))
         IN PayloadsPastOffset(i - 1) \o
            [k \in 1..Len(groups) |-> ReloadPayload(groups[k])]

(* C4: search_iter (non-raw) with offset k skips exactly the first k       *)
(* identities of the concatenated pages: a page is resolved from its first *)
(* identity past position k, and once a page is handled the identities     *)
(* sent to reload_audio are those of all pages so far without the first k. *)
C4_SearchOffsetSkipsExactly ==
    (driver = "search_iter" /\ ~raw /\ pages # <<>>) =>
        /\ pc = "st" =>
             st_ids = Drop(PageIds(Len(pages)), arg_offset - IdsBefore(Len(pages)))
        /\ pc = "si_after" =>
             [k \in 1..Len(ReloadRequests) |-> ReloadRequests[k].ids]
                = PayloadsPastOffset(Len(pages))

(* C5: in one get_iter run the offsets of the load_section requests are    *)
(* 0, 2000, 4000, ...                                                      *)
C5_OffsetsStepBy2000 ==
    \A k \in 1..Len(LoadSectionRequests) :
        LoadSectionRequests[k].offset = 2000 * (k - 1)

(* C6: every load_catalog_section request carries the sectionId and the    *)
(* nextFrom of the listing answer received last before it.                 *)
C6_CursorFromLastAnswer ==
    \A k \in 1..Len(http_log) :
        http_log[k].act = "load_catalog_section" =>
            /\ http_log[k].seen >= 1
            /\ http_log[k].section_id = pages[http_log[k].seen].sectionId
            /\ http_log[k].start_from = pages[http_log[k].seen].nextFrom

C6_Witness ==
    \E k \in 1..Len(http_log) :
        http_log[k].act = "load_catalog_section" /\ http_log[k].seen >= 2

(* C7: a request is issued only while the consumer waits for an element    *)
(* not yet produced: it has pulled once more than it has received, and no  *)
(* element produced from the previous chunk or page is still undelivered.  *)
C7_DemandDriven ==
    [][Len(http_log') > Len(http_log) =>
          /\ ctl = "running"
          /\ pulls = Len(out) + 1
          /\ data_audio = <<>> /\ raw_iter = <<>>]_vars

C7_Witness ==
    /\ ctl = "suspended" /\ Len(out) >= 2
    /\ Len(ReloadRequests) >= 2 /\ Len(pages) >= 2

Keeps(rec) ==
    /\ Str(rec.owner_id) # <<>> /\ Str(rec.id) # <<>>
    /\ Token(rec, 2) # <<>> /\ Token(rec, 5) # <<>>

TupleOf(rec) == <<Str(rec.owner_id), Str(rec.id), Token(rec, 2), Token(rec, 5)>>

NonZero(v) == v # PyInt(0) /\ v # PyStr(<<>>)

KeepsNonZero(rec) ==
    /\ NonZero(rec.owner_id) /\ NonZero(rec.id)
    /\ Token(rec, 2) # <<>> /\ Token(rec, 5) # <<>>

C9_RawNeverResolves == raw => ReloadRequests = <<>>

C9_Witness ==
    /\ raw /\ driver = "search_iter" /\ ctl = "finished"
    /\ Len(pages) >= 2 /\ Len(out) >= 2

(* C10: with raw=True and offset 0 every record of every fetched page is   *)
(* yielded, records without a valid identity included.                     *)
C10_RawYieldsEveryRecord ==
    (raw /\ arg_offset = 0 /\ ctl = "finished" /\ exc = "none") =>
        LET recs == RecordsUpTo(Len(pages))
        IN out = [k \in 1..Len(recs) |-> RawRecord(recs[k])]

\* segs holds, from part i on, /<hex1> /audios /<hex2> /index.m3u8 and no
\* other playlist name or opaque marker
M3u8PartsAt(i) ==
    /\ i + 3 <= Len(segs)
    /\ segs[i] \in {HEX1, HEX2} /\ segs[i + 1] = AUDIOS
    /\ segs[i + 2] \in {HEX1, HEX2} /\ segs[i + 3] = PLAYLIST
    /\ \A j \in 1..Len(segs) : segs[j] = PLAYLIST => j = i + 3
    /\ \A j \in 1..Len(segs) : segs[j] # OPAQUE

\* the link with parts i .. i+3 replaced by the given text
WithPartsReplaced(i, text) ==
    Concat(SubSeq(segs, 1, i - 1)) \o text \o Concat(SubSeq(segs, i + 4, Len(segs)))

Matches(u) == \E i \in 1..Len(u) : MatchAt(u, i).ok

(* C12: the url of a yielded track whose record does not carry the         *)
(* audio_api_unavailable marker is the URL field of that record when       *)
(* convert_m3u8_links is off (m3u8 URLs included), and also when it is on  *)
(* and the URL does not match the m3u8 pattern.                            *)
C12_UrlPassesThrough ==
    \A k \in 1..Len(out) :
        LET u == UrlOf(out[k].id)
        IN (~HasSub(MARKER, u) /\ (~convert_m3u8_links \/ ~Matches(u))) =>
               out[k].url = u

C12_Witness ==
    /\ ~convert_m3u8_links
    /\ \E k \in 1..Len(out) : Matches(out[k].url) /\ ~HasSub(MARKER, UrlOf(out[k].id))
    /\ \E k \in 1..Len(out) : ~HasSub(M3U8, out[k].url)

(* C14: the URL step applied to its own output changes nothing, with the  *)
(* conversion on or off: a link that is not an m3u8 link stays what it is, *)
(* and so does the result of an m3u8 rewrite.  (Links without the opaque   *)
(* marker: what decode_audio_url returns is not decided by this code.)     *)
C14_Idempotent ==
    (\A j \in 1..Len(segs) : segs[j] # OPAQUE) =>
        \A k \in 2..Len(passes) : passes[k] = passes[k - 1]

C14_Witness ==
    /\ Len(passes) >= 2 /\ convert_m3u8_links
    /\ \A j \in 1..Len(segs) : segs[j] # OPAQUE
    /\ passes[1] # link /\ HasSub(MP3, passes[1]) /\ passes[2] = passes[1]

\* the reload_audio payloads sent while listing answer number i was the last
PayloadsAfterPage(i) ==
    LET sent == SelectSeq(http_log, LAMBDA q : q.act = "reload_audio" /\ q.seen = i)
    IN [k \in 1..Len(sent) |-> sent[k].ids]

(* C13: for two consecutive search pages of 5 identities each and an       *)
(* offset of 7 (LongPage, LongPage, DeepOffset), search_iter (non-raw)     *)
(* resolves no identity of the first page and exactly the last 3           *)
(* identities of the second page, in order.                                *)
C13_SecondPageFromOffset ==
    (/\ driver = "search_iter" /\ ~raw /\ arg_offset = DeepOffset
     /\ Len(pages) >= 2
     /\ Len(PageIds(1)) = LongPage /\ Len(PageIds(2)) = LongPage) =>
        LET last == Drop(PageIds(2), DeepOffset - LongPage)
        IN /\ PayloadsAfterPage(1) = <<>>
           /\ (pc = "st" /\ Len(pages) = 2) => st_ids = last
           /\ (Len(pages) > 2 \/ pc = "si_after") =>
                 PayloadsAfterPage(2) =
                    [k \in 1..Len(IdsGroups(last)) |-> ReloadPayload(IdsGroups(last)[k])]

C13_Witness ==
    /\ driver = "search_iter" /\ ~raw /\ arg_offset = DeepOffset
    /\ Len(pages) > 2 /\ Len(PageIds(1)) = LongPage /\ Len(PageIds(2)) = LongPage
    /\ Len(PayloadsAfterPage(2)) = 1 /\ Len(out) >= 2
    /\ Len(Drop(PageIds(2), DeepOffset - LongPage)) = 2 * LongPage - DeepOffset

(* C15: when the first load_section answer of get_iter has a falsy         *)
(* data[0], AccessDenied is raised before any element is yielded and       *)
(* before any reload_audio request is issued.                              *)
C15_AccessDeniedFirst ==
    (driver = "get_iter" /\ pages # <<>> /\ ~pages[1].ok) =>
        /\ ctl = "finished" /\ exc = "AccessDenied"
        /\ out = <<>> /\ ReloadRequests = <<>> /\ Len(http_log) = 1

C15_Witness ==
    /\ driver = "get_iter" /\ exc = "AccessDenied"
    /\ Len(pages) = 1 /\ ~pages[1].ok /\ pulls = 1 /\ out = <<>>

\* what a request asks for, whenever it is made
RequestKey(q) == <<q.act, q.offset, q.ids, q.section_id, q.start_from>>

(* C16: no request is made twice in one run, and a post that raises is the *)
(* last request of the run: its exception reaches the consumer at the pull *)
(* that triggered it, and the generator is finished.                       *)
C16_NoRetry ==
    /\ \A j, k \in 1..Len(http_log) :
          j < k => RequestKey(http_log[j]) # RequestKey(http_log[k])
    /\ \A k \in 1..Len(http_log) :
          http_log[k].failed =>
             /\ k = Len(http_log)
             /\ ctl = "finished" /\ exc = "RequestException"
             /\ pulls = Len(out) + 1

C16_Witness ==
    /\ exc = "RequestException" /\ ctl = "finished"
    /\ Len(http_log) >= 3 /\ http_log[Len(http_log)].failed
    /\ http_log[Len(http_log)].act = "load_catalog_section"
    /\ ReloadRequests # <<>> /\ out # <<>>

(* C17: an answer of reload_audio whose data envelope is absent or empty   *)
(* makes its chunk yield nothing and raises nothing; the chunks after it   *)
(* are still requested, so that a run in which no post raises ends         *)
(* normally with one request per chunk.                                    *)
C17_EmptyEnvelopeSkipped ==
    exc # "RequestException" =>
        /\ exc = "none"
        /\ ctl = "finished" => Len(http_log) = (Len(st_ids) + 9) \div 10

(* C18: of two invocations of scrap_tracks running concurrently over one   *)
(* http session, each keeps its own last_request (the time its own last    *)
(* answer arrived) and each keeps its own requests at least 1.5 s apart;   *)
(* the session as a whole can still see two requests less than 1.5 s       *)
(* apart (the state C18_Witness describes).                                *)
C18_OwnTimestamp ==
    \A w \in DOMAIN workers :
        /\ \A k \in 2..Len(workers[w].sent) :
              workers[w].sent[k] - workers[w].sent[k - 1] >= RPS_DELAY_RELOAD_AUDIO
        /\ workers[w].last_request =
              IF workers[w].answered = <<>> THEN 0
              ELSE workers[w].answered[Len(workers[w].answered)]

C18_Witness ==
    /\ \A w \in DOMAIN workers : Len(workers[w].sent) >= 2
    /\ workers # <<>>
    /\ \E k \in 2..Len(http_log) :
          /\ http_log[k].t - http_log[k - 1].t < RPS_DELAY_RELOAD_AUDIO
          /\ http_log[k].ids # http_log[k - 1].ids

\* s is an integer as int() reads one: an optional sign, then digits, with
\* single underscores allowed between two digits
IsIntText(s) ==
    LET body == IF s # <<>> /\ Head(s) = "-" THEN Tail(s) ELSE s
    IN /\ body # <<>>
       /\ \A i \in 1..Len(body) : IsDigit(body[i]) \/ body[i] = "_"
       /\ \A i \in 1..Len(body) :
             body[i] = "_" =>
                /\ i > 1 /\ i < Len(body)
                /\ IsDigit(body[i - 1]) /\ IsDigit(body[i + 1])

\* s is a plain base-10 integer: an optional sign, then digits
IsPlainIntText(s) ==
    LET body == IF s # <<>> /\ Head(s) = "-" THEN Tail(s) ELSE s
    IN body # <<>> /\ \A i \in 1..Len(body) : IsDigit(body[i])

\* str() of the integer an integer text stands for: the digits without
\* underscores and leading zeros, the sign kept unless the number is zero
RECURSIVE NoLeadingZeros(_)
NoLeadingZeros(d) ==
    IF Len(d) > 1 /\ Head(d) = "0" THEN NoLeadingZeros(Tail(d)) ELSE d

Canonical(s) ==
    LET digits == NoLeadingZeros(SelectSeq(s, IsDigit))
    IN IF s # <<>> /\ Head(s) = "-" /\ digits # <<"0">> THEN <<"-">> \o digits
       ELSE digits

\* the words of a text but the last, written one after the other
AllButLastWord(t) ==
    LET words == Split(t, " ") IN Concat(SubSeq(words, 1, Len(words) - 1))

(* C19, as amended: scrap_albums never raises on a stats text.  plays is   *)
(* the integer int() reads in the text before the last space (the whole    *)
(* text when it has no space) with the spaces removed, and None when int() *)
(* rejects it; the album record is produced in both cases.                 *)
C19_TextBeforeLastSpace ==
    albums.done =>
        /\ albums.err = "none" /\ Len(albums.list) = Len(html)
        /\ \A k \in 1..Len(html) :
              LET t    == html[k]
                  rest == IF \A i \in 1..Len(t) : t[i] # " " THEN t
                          ELSE AllButLastWord(t)
                  p    == albums.list[k].plays
              IN IF IsIntText(rest)
                 THEN p.k = "int" /\ Str(p) = Canonical(rest)
                 ELSE p = PyNone

C19_Witness ==
    /\ albums.done /\ Len(html) = 2
    /\ html[1] \in ExampleTexts /\ html[2] \in ExampleTexts
    /\ albums.list[1].plays = PyNone /\ albums.list[2].plays = PyInt(1011)

(* C19, as first stated: plays is the integer obtained by dropping the     *)
(* last space-separated word of the stats text and removing the remaining  *)
(* spaces, None when what remains is not a base-10 integer.                *)
C19_DropsLastWord ==
    albums.done =>
        /\ albums.err = "none" /\ Len(albums.list) = Len(html)
        /\ \A k \in 1..Len(html) :
              LET rest == AllButLastWord(html[k])
                  p    == albums.list[k].plays
              IN IF IsPlainIntText(rest)
                 THEN p.k = "int" /\ Str(p) = Canonical(rest)
                 ELSE p = PyNone

(* C20: get_news_iter, fed well-formed answers, pages through the catalog  *)
(* pages that follow its first page: it never raises, and it returns only  *)
(* after a page without identities, having resolved the identities of      *)
(* every page before it.                                                   *)
C20_NewsPagesThrough ==
    (/\ driver = "get_news_iter" /\ arg_offset = 0
     /\ \A i \in 1..Len(pages) : pages[i].ok
     /\ exc \notin {"RequestException", "KeyError: 'data'"}) =>
        /\ exc = "none"
        /\ ctl = "finished" =>
              /\ PageIds(Len(pages)) = <<>>
              /\ [k \in 1..Len(ReloadRequests) |-> ReloadRequests[k].ids]
                    = PayloadsPastOffset(Len(pages))

(* C21: get_iter, raw or not, issues a load_section request after an       *)
(* answer only if that answer, the most recent one, reported hasMore true: *)
(* after an answer with hasMore false no load_section request follows.     *)
C21_OnlyWhileHasMore ==
    driver = "get_iter" =>
        \A k \in 1..Len(LoadSectionRequests) :
            LET q == LoadSectionRequests[k]
            IN /\ q.seen = k - 1
               /\ q.seen >= 1 => pages[q.seen].ok /\ pages[q.seen].hasMore

C21_Witness ==
    /\ driver = "get_iter" /\ ~raw /\ ctl = "finished" /\ exc = "none"
    /\ Len(pages) = 2 /\ Len(LoadSectionRequests) = 2
    /\ pages[1].hasMore /\ ~pages[2].hasMore /\ Len(out) >= 2

(* C22: get_news_iter stops as soon as a page yields no identities: no     *)
(* page request is issued after a page without identities, the first page  *)
(* included.                                                               *)
C22_StopsAtEmptyPage ==
    driver = "get_news_iter" =>
        \A k \in 1..Len(http_log) :
            (http_log[k].act = "load_catalog_section" /\ http_log[k].seen >= 1) =>
                PageIds(http_log[k].seen) # <<>>

(* C23: get_news_iter with offset k resolves exactly the identities of the *)
(* fetched pages (the first page, then each catalog page) put end to end   *)
(* with the first k removed: a page is resolved from its first identity    *)
(* past position k, and the running total grows by the full identity count *)
(* of every page, sliced, suppressed or resolved whole.                    *)
C23_NewsOffsetSkipsExactly ==
    (driver = "get_news_iter" /\ pages # <<>> /\ pages[1].ok) =>
        /\ pc = "st" =>
             st_ids = Drop(PageIds(Len(pages)), arg_offset - IdsBefore(Len(pages)))
        /\ pc = "gn_loop" => offset_left = IdsBefore(Len(pages) + 1)
        /\ (\/ pc \in {"gn_count", "gn_loop"}
            \/ ctl = "finished" /\ exc \in {"none", "KeyError: 'sectionData'"}) =>
             [k \in 1..Len(ReloadRequests) |-> ReloadRequests[k].ids]
                = PayloadsPastOffset(Len(pages))

C23_Witness ==
    /\ driver = "get_news_iter" /\ arg_offset = MaxOffset /\ Len(pages) = 2
    /\ pc = "gn_loop" /\ offset_left = MaxOffset + 1
    /\ Len(PageIds(1)) = MaxOffset - 1 /\ Len(PageIds(2)) = 2
    /\ Len(ReloadRequests) = 1 /\ Len(out) = 1
    /\ ReloadRequests[1].ids = ReloadPayload(Drop(PageIds(2), 1))

\* listing answer number i of get_updates_iter is a full page with at least
\* one identity
FullUpdatesPage(i) ==
    Len(pages[i].playlists) >= FULL_UPDATES_PAGE /\ PageIds(i) # <<>>

(* C24: get_updates_iter requests one more page after a page with 11 or    *)
(* more sub-playlists and at least one identity, and after no other page:  *)
(* every load_catalog_section request follows such a page, no page is      *)
(* followed by two requests, and the generator returns only after a page   *)
(* with fewer than 11 sub-playlists or without identities.                 *)
C24_UpdatesPaging ==
    driver = "get_updates_iter" =>
        /\ \A k \in 1..Len(http_log) :
              http_log[k].act = "load_catalog_section" =>
                 /\ http_log[k].seen >= 1 /\ FullUpdatesPage(http_log[k].seen)
                 /\ \A j \in 1..(k - 1) :
                       http_log[j].act = "load_catalog_section" =>
                          http_log[j].seen # http_log[k].seen
        /\ (ctl = "finished" /\ exc = "none") =>
              pages # <<>> /\ ~FullUpdatesPage(Len(pages))

C24_Witness ==
    /\ driver = "get_updates_iter" /\ ctl = "finished" /\ exc = "none"
    /\ Len(pages) = 3 /\ FullUpdatesPage(1) /\ FullUpdatesPage(2)
    /\ Len(pages[3].playlists) = FULL_UPDATES_PAGE - 1 /\ PageIds(3) # <<>>
    /\ Len(SelectSeq(http_log, LAMBDA q : q.act = "load_catalog_section")) = 2

\* the requests of the run that ask for a page of a listing
ListingRequests == SelectSeq(http_log, LAMBDA q : q.act # "reload_audio")

(* C25: get_popular_iter issues exactly one listing request per run,       *)
(* whatever the answer, and resolves exactly the identities of that page   *)
(* from position offset on: all of them when offset is 0, none when offset *)
(* is at least their number.                                               *)
C25_PopularSinglePage ==
    driver = "get_popular_iter" =>
        LET rest   == Drop(PageIds(1), arg_offset)
            groups == IdsGroups(rest)
        IN /\ Len(ListingRequests) = (IF pc = "gp_start" THEN 0 ELSE 1)
           /\ \A k \in 1..Len(ListingRequests) : ListingRequests[k].act = "chart"
           /\ pc = "st" => st_ids = rest
           /\ (ctl = "finished" /\ exc = "none") =>
                 [k \in 1..Len(ReloadRequests) |-> ReloadRequests[k].ids]
                    = [k \in 1..Len(groups) |-> ReloadPayload(groups[k])]

C25_Witness ==
    /\ driver = "get_popular_iter" /\ ctl = "finished" /\ exc = "none"
    /\ arg_offset = 1 /\ Len(pages[1].list) = 2 /\ Len(PageIds(1)) = 2
    /\ Len(ListingRequests) = 1 /\ Len(ReloadRequests) = 1 /\ Len(out) = 1

\* the albums of the first i album pages, in order
RECURSIVE AlbumsUpTo(_)
AlbumsUpTo(i) ==
    IF i = 0 THEN <<>> ELSE AlbumsUpTo(i - 1) \o scrap_albums(pages[i].list)

(* C26: get_albums_iter requests album pages at offsets 0, 100, 200, ...   *)
(* in order, yields every album of each page in page order, requests a     *)
(* further page only after a page with albums, returns at the first page   *)
(* that parses to zero albums, and raises AccessDenied when the text of a  *)
(* page is empty.                                                          *)
C26_AlbumPages ==
    driver = "get_albums_iter" =>
        /\ \A k \in 1..Len(http_log) :
              /\ http_log[k].act = "audio_playlists"
              /\ http_log[k].offset = ALBUMS_PER_USER_PAGE * (k - 1)
              /\ http_log[k].seen = k - 1
              /\ k > 1 => pages[k - 1].ok /\ scrap_albums(pages[k - 1].list) # <<>>
        /\ out \o raw_iter = AlbumsUpTo(Len(pages))
        /\ (pages # <<>> /\ ~pages[Len(pages)].ok) =>
              ctl = "finished" /\ exc = "AccessDenied"
        /\ (pages # <<>> /\ pages[Len(pages)].ok /\ pages[Len(pages)].list = <<>>) =>
              ctl = "finished" /\ exc = "none"
        /\ (ctl = "finished" /\ exc = "none") =>
              pages # <<>> /\ pages[Len(pages)].ok /\ pages[Len(pages)].list = <<>>

C26_Witness ==
    /\ driver = "get_albums_iter" /\ ctl = "finished" /\ exc = "none"
    /\ Len(pages) = 3 /\ Len(http_log) = 3
    /\ http_log[3].offset = 2 * ALBUMS_PER_USER_PAGE
    /\ Len(pages[1].list) = 2 /\ Len(pages[2].list) = 1 /\ Len(out) = 3
    /\ out[1].plays = PyNone /\ out[3].plays = PyInt(21)

\* the playlist is one search_iter is meant to read: of type 'search', not
\* empty, its first record carrying the requested scope marker
MatchesScope(playlist) ==
    /\ playlist.type = "search" /\ playlist.list # <<>>
    /\ Contains(playlist.list[1].context, SearchOption)

(* C27: search_iter reads every page from the playlist selected on the     *)
(* first answer, the first one of type 'search' that is not empty and      *)
(* carries the requested scope marker: nothing is yielded or resolved from *)
(* a playlist that does not match.                                         *)
C27_ReadsMatchingPlaylist ==
    (driver = "search_iter" /\ pages # <<>>) =>
        LET playlists == pages[1].playlists
            first     == {i \in 1..Len(playlists) :
                             /\ MatchesScope(playlists[i])
                             /\ \A j \in 1..(i - 1) : ~MatchesScope(playlists[j])}
        IN /\ \A i \in first : desired_index = i - 1
           /\ (out # <<>> \/ ReloadRequests # <<>>) =>
                 MatchesScope(playlists[desired_index + 1])

\* the records of the answers to the reload_audio requests, in request order
Answered == Concat([k \in 1..Len(ReloadRequests) |-> ReloadRequests[k].answer])

(* C28: scrap_tracks yields one track per record of the answers, in chunk  *)
(* order and within a chunk in the order of the answer: what has been      *)
(* yielded, followed by the records of the current chunk not yet yielded,  *)
(* is the answers to the requests made so far put end to end.              *)
C28_AnswerOrder ==
    [k \in 1..Len(out) |-> Whose(out[k])]
        \o [k \in 1..Len(data_audio) |-> Whose(data_audio[k])] = Answered

C28_Witness ==
    /\ ctl = "finished" /\ exc = "none" /\ Len(http_log) = 3
    /\ Len(http_log[1].answer) = 2 /\ http_log[2].answer = <<>>
    /\ Len(http_log[3].answer) = 1
    /\ Len(out) = 3 /\ out[1].id # out[2].id /\ out[3].id = Str(PyInt(21))

(* C29: scrap_ids raises nothing on a record with an invalid identity,     *)
(* whatever the number of tokens of its hashes field (fewer than 6         *)
(* included): such a record is dropped and the records after it are still  *)
(* processed.                                                              *)
C29_NeverRaises ==
    scraped.done =>
        LET kept == SelectSeq(audio_data, Keeps)
        IN /\ scraped.err = "none"
           /\ scraped.ids = [k \in 1..Len(kept) |-> TupleOf(kept[k])]

(* C30: the pacing timestamp is not carried from one scrap_tracks call to  *)
(* the next inside a driver run: the first reload_audio request for a page *)
(* is issued without delay, at the time of the listing request before it   *)
(* (the wall clock being past 1.5 s), however recently the previous page's *)
(* last reload_audio request completed; two reload_audio requests of one   *)
(* run can thus be less than 1.5 s apart (the state C30_Witness describes).*)
C30_FirstRequestUnpaced ==
    \A k \in 2..Len(http_log) :
        (http_log[k].act = "reload_audio" /\ http_log[k - 1].act # "reload_audio") =>
            http_log[k].t = http_log[k - 1].t

C30_Witness ==
    /\ driver = "get_iter" /\ Len(ReloadRequests) >= 2
    /\ ReloadRequests[1].seen = 1 /\ ReloadRequests[2].seen = 2
    /\ ~ReloadRequests[1].failed /\ ~ReloadRequests[2].failed
    /\ ReloadRequests[2].t - ReloadRequests[1].t < RPS_DELAY_RELOAD_AUDIO
    /\ Len(out) >= 2

(* C31: get_iter tests data[0] on every page: when the answer to a later   *)
(* load_section request has a falsy data[0], AccessDenied reaches the      *)
(* consumer, after the elements of the earlier pages have been yielded,    *)
(* instead of the sequence ending normally.                                *)
C31_AccessDeniedAnyPage ==
    (driver = "get_iter" /\ pages # <<>>) =>
        /\ \A i \in 1..(Len(pages) - 1) : pages[i].ok
        /\ ~pages[Len(pages)].ok => ctl = "finished" /\ exc = "AccessDenied"
        /\ exc = "AccessDenied" => ~pages[Len(pages)].ok

C31_Witness ==
    /\ driver = "get_iter" /\ ~raw /\ ctl = "finished" /\ exc = "AccessDenied"
    /\ Len(pages) = 2 /\ pages[1].ok /\ ~pages[2].ok
    /\ Len(out) = 2 /\ out[1].kind = "track" /\ pulls = 3

\* the number of tracks search_iter yields in non-raw mode from listing
\* answer i on, offset_left being left: the pages are walked as SI_Page and
\* SI_After walk them, each identity resolved to one track
RECURSIVE NonRawCount(_, _)
NonRawCount(i, left) ==
    IF i > Len(pages) \/ PageIds(i) = <<>> THEN 0
    ELSE LET got == PageIds(i)
             cut == IF left + Len(got) >= arg_offset /\ left < arg_offset
                    THEN Drop(got, arg_offset - left) ELSE got
         IN (IF left + Len(got) >= arg_offset THEN Len(cut) ELSE 0)
               + NonRawCount(i + 1, left + Len(cut))

(* C32: for the same search answers and the same offset, search_iter in    *)
(* raw mode yields as many records as it yields tracks in non-raw mode     *)
(* (every record having a valid identity): the page that straddles the     *)
(* offset yields only its tail past the offset in raw mode too.            *)
C32_RawYieldsAsManyAsNonRaw ==
    (/\ driver = "search_iter" /\ raw /\ ctl = "finished" /\ exc = "none"
     /\ \A i \in 1..Len(pages) : Len(PageIds(i)) = Len(ListRead(i))) =>
        Len(out) = NonRawCount(1, 0)

\* the first record of each sub-playlist that has one, in sub-playlist order
RECURSIVE Firsts(_)
Firsts(playlists) ==
    IF playlists = <<>> THEN <<>>
    ELSE (IF Head(playlists).list = <<>> THEN <<>> ELSE <<Head(playlists).list[1]>>)
            \o Firsts(Tail(playlists))

(* C33: on each page get_updates_iter resolves at most one identity per    *)
(* sub-playlist, that of the first record of each non-empty sub-playlist,  *)
(* in sub-playlist order; an empty sub-playlist gives no identity but      *)
(* counts toward the 11 sub-playlists of a full page.                      *)
C33_FirstOfEachPlaylist ==
    (driver = "get_updates_iter" /\ pc \in {"st", "gu_after"}) =>
        LET playlists == pages[Len(pages)].playlists
            firsts    == scrap_ids(Firsts(playlists)).ids
            groups    == IdsGroups(firsts)
        IN /\ ids = firsts /\ st_ids = firsts
           /\ Len(ids) <= Len(playlists)
           /\ \A k \in 1..Len(PayloadsAfterPage(Len(pages))) :
                 PayloadsAfterPage(Len(pages))[k] = ReloadPayload(groups[k])
           /\ pc = "gu_after" =>
                 /\ Len(PayloadsAfterPage(Len(pages))) = Len(groups)
                 /\ ENABLED GU_Break <=> Len(playlists) < FULL_UPDATES_PAGE

C33_Witness ==
    /\ driver = "get_updates_iter" /\ Len(pages) = 2 /\ pc = "gu_loop"
    /\ Len(pages[1].playlists) = FULL_UPDATES_PAGE
    /\ pages[1].playlists[1].list = <<>>
    /\ Len(PageIds(1)) = FULL_UPDATES_PAGE - 1
    /\ Len(PayloadsAfterPage(1)) = 1
    /\ http_log[Len(http_log)].act = "load_catalog_section"

(* C34: get_audio_by_id returns the first resolved track when the page     *)
(* holds a track with a valid identity that the resolver resolves, and     *)
(* returns an empty list, raising nothing, when no identity is found or    *)
(* the resolver yields no track.                                           *)
C34_TrackOrEmptyList ==
    (/\ driver = "get_audio_by_id" /\ ctl = "finished"
     /\ pages # <<>> /\ pages[1].ok
     /\ exc \notin {"RequestException", "KeyError: 'data'"}) =>
        /\ exc = "none"
        /\ IF Answered = <<>> THEN out = <<>>
           ELSE /\ Len(out) = 1 /\ Whose(out[1]) = Answered[1]
                /\ out[1] = Track(Resolved(PageIds(1)[1]))

\* the file objects the opener has opened itself, and those still open
Own == {k \in 1..Len(opener.handles) : opener.handles[k].owner = "opener"}

StillOpen == {k \in Own : opener.handles[k].open}

(* C35: FilesOpener closes exactly the files it opened itself: once the    *)
(* with block is left or close_files has been called, every file it opened *)
(* from a path is closed and opened_files is empty; a file-like object of  *)
(* the caller is never closed by it; and open_files called again first     *)
(* closes the files of the call before, so that the files still open are   *)
(* those of the last call, the ones opened_files lists.                    *)
C35_ClosesItsOwnFiles ==
    driver = "FilesOpener" =>
        /\ opener.at \in {"exited", "closed"} =>
              opener.opened_files = <<>> /\ StillOpen = {}
        /\ \A k \in 1..Len(opener.handles) :
              opener.handles[k].owner = "caller" => opener.handles[k].open
        /\ \A k \in StillOpen : opener.handles[k].call = opener.calls
        /\ StillOpen = {opener.opened_files[j] : j \in 1..Len(opener.opened_files)}

C35_Witness ==
    /\ driver = "FilesOpener" /\ opener.at = "exited" /\ opener.calls = 2
    /\ Len(opener.paths) = 3 /\ opener.paths[2].kind = "filelike"
    /\ Cardinality(Own) = 4 /\ StillOpen = {}
    /\ opener.handles[1].owner = "caller" /\ opener.handles[1].open

(* C36: when opening one of several paths fails inside open_files, called  *)
(* by a with statement, no file the opener has opened for the earlier      *)
(* paths is left open once the exception has propagated.                   *)
C36_NoLeakOnFailure ==
    (driver = "FilesOpener" /\ opener.at = "raised") => StillOpen = {}

=============================================================================
